---- MODULE Spec2Model ----
(***************************************************************************)
(* A model of docxfix: the paragraph-content synthesizer, the identifier   *)
(* service, the document assembler (src/docxfix/generator.py) and the      *)
(* structural validator (src/docxfix/validator.py).                        *)
(*                                                                         *)
(* Text is a sequence of one-character strings.  XML attribute values that *)
(* the code renders with str() or strftime() are character sequences too.  *)
(***************************************************************************)
EXTENDS Integers, Sequences, FiniteSets, TLC

VARIABLES
    docSpec,     \* the DocumentSpec a caller builds
    globalRng,   \* state of the module-level generator of Python's `random`
    clock,       \* wall clock, in seconds
    gens,        \* the DocumentGenerator instances of the process
    paraSpec,    \* a Paragraph handed to the synthesizer
    paraOut,     \* what the synthesizer emitted for paraSpec
    container,   \* the archive on disk that validate() reads
    edits,       \* what was rewritten in the archive after it was generated
    vpc,         \* validate(): the check that runs next
    vresult      \* validate(): outcome

vars == <<docSpec, globalRng, clock, gens, paraSpec, paraOut, container, edits, vpc, vresult>>

(***************************************************************************)
(* Bounds of the model.                                                    *)
(***************************************************************************)
MaxTextLen == 3
MaxItems == 2
MaxReplies == 1

\* an optional value: None is the sequence of no value, Some(x) holds x
None == <<>>

Some(x) == <<x>>

Val(o) == o[1]

(***************************************************************************)
(* Strings.                                                                *)
(***************************************************************************)
Whitespace == {" "}

TextAlphabet == {"a", " "}

RECURSIVE TextsUpTo(_)
TextsUpTo(n) ==
    IF n = 0 THEN {<<>>}
    ELSE LET shorter == TextsUpTo(n - 1)
         IN shorter \cup {Append(t, c) : t \in {u \in shorter : Len(u) = n - 1},
                                          c \in TextAlphabet}

\* text[i:j] of Python, 0-based, end exclusive
Slice(text, i, j) == SubSeq(text, i + 1, j)

\* str.find: index of the first occurrence of sub in text, -1 when absent
Find(text, sub) ==
    LET hits == {i \in 0..(Len(text) - Len(sub)) :
                    Slice(text, i, i + Len(sub)) = sub}
    IN IF hits = {} THEN -1
       ELSE CHOOSE i \in hits : \A j \in hits : i <= j

\* `sub in text`
Contains(text, sub) == Find(text, sub) # -1

RECURSIVE LStrip(_)
LStrip(t) == IF t # <<>> /\ Head(t) \in Whitespace THEN LStrip(Tail(t)) ELSE t

RECURSIVE RStrip(_)
RStrip(t) ==
    IF t # <<>> /\ t[Len(t)] \in Whitespace
    THEN RStrip(SubSeq(t, 1, Len(t) - 1)) ELSE t

\* str.strip()
Strip(t) == RStrip(LStrip(t))

DecimalDigits == <<"0", "1", "2", "3", "4", "5", "6", "7", "8", "9">>

\* str(n) for n >= 0
RECURSIVE Str(_)
Str(n) ==
    IF n < 10 THEN <<DecimalDigits[n + 1]>>
    ELSE Str(n \div 10) \o <<DecimalDigits[(n % 10) + 1]>>

RECURSIVE Concat(_)
Concat(seqs) == IF seqs = <<>> THEN <<>> ELSE Head(seqs) \o Concat(Tail(seqs))

(***************************************************************************)
(* The pseudo-random generator behind random.seed / random.choices: a      *)
(* 16-bit linear congruential generator stands in for the Mersenne         *)
(* Twister; what matters is that it is one deterministic state machine.    *)
(***************************************************************************)
RngStep(s) == (s * 25173 + 13849) % 65536

\* random.seed(k)
SeedState(k) == (k * 7919 + 1) % 65536

HexAlphabet ==
    <<"0", "1", "2", "3", "4", "5", "6", "7", "8", "9", "A", "B", "C", "D", "E", "F">>

\* population[floor(random() * 16)]
RngPick(s) == HexAlphabet[(s \div 4096) + 1]

\* str.upper() on one character
UpperChar(c) ==
    CASE c = "a" -> "A" [] c = "b" -> "B" [] c = "c" -> "C"
      [] c = "d" -> "D" [] c = "e" -> "E" [] c = "f" -> "F" [] OTHER -> c

Upper(t) == [i \in 1..Len(t) |-> UpperChar(t[i])]

RECURSIVE Choices(_, _, _)
\* random.choices(population, k=k): k draws, each advancing the generator
Choices(s, k, acc) ==
    IF k = 0 THEN [id |-> acc, rng |-> s]
    ELSE Choices(RngStep(s), k - 1, Append(acc, RngPick(RngStep(s))))

\* "".join(random.choices("0123456789ABCDEF", k=length)) on the module-level
\* generator in state s: the id and the state the generator is left in
generate_hex_id(s, length) == Choices(s, length, <<>>)

(***************************************************************************)
(* Specification model (src/docxfix/spec.py).                              *)
(***************************************************************************)
INSERTION == "insertion"
DELETION == "deletion"

\* __post_init__ of TrackedChange, CommentReply and Comment: the date that
\* was given, or datetime.now() when none was
post_init_date(date, now) == IF date = None THEN now ELSE Val(date)

\* TrackedChange(change_type, text, date, insert_after)
TrackedChange(change_type, text, date, insert_after) ==
    [change_type |-> change_type, text |-> text, date |-> date,
     insert_after |-> insert_after]

\* CommentReply(text, date): the model keeps the date
CommentReply(date) == [date |-> date]

\* Comment(text, anchor_text, date, replies, resolved)
Comment(anchor_text, date, replies, resolved) ==
    [anchor_text |-> anchor_text, date |-> date, replies |-> replies,
     resolved |-> resolved]

\* Paragraph(text, tracked_changes, comments, numbering, heading_level)
Paragraph(text, tracked_changes, comments, numbering, heading_level) ==
    [text |-> text, tracked_changes |-> tracked_changes, comments |-> comments,
     numbering |-> numbering, heading_level |-> heading_level]

(***************************************************************************)
(* The per-generator derived state and the elements a paragraph holds.     *)
(***************************************************************************)
\* DocumentGenerator.__init__: the counters and the comment records; rng is
\* the module-level generator the instance draws from
NewGenerator(rng) ==
    [rng |-> rng, revision_counter |-> 0, comment_counter |-> 0,
     comment_metadata |-> <<>>]

\* date.strftime("%Y-%m-%dT%H:%M:%SZ"): the seconds, rendered
strftime(date) == Str(date)

\* _add_text_run: <w:r><w:t>text</w:t></w:r>, xml:space="preserve" when the
\* text differs from its stripped form
add_text_run(text) == [tag |-> "r", text |-> text, space |-> text # Strip(text)]

\* a <w:r><w:t> written without the helper, with the space flag given
plain_run(text, space) == [tag |-> "r", text |-> text, space |-> space]

\* _emit_tracked_change: one <w:ins> or <w:del>, numbered by the shared counter
emit_tracked_change(st, change) ==
    LET n == st.revision_counter + 1
    IN [st |-> [st EXCEPT !.revision_counter = n],
        out |-> <<[tag |-> IF change.change_type = INSERTION THEN "ins" ELSE "del",
                   id |-> Str(n),
                   date |-> strftime(change.date),
                   text |-> change.text,
                   space |-> change.text # Strip(change.text)]>>]

RECURSIVE emit_all(_, _, _)
\* the legacy path: changes in declaration order
emit_all(st, changes, acc) ==
    IF changes = <<>> THEN [st |-> st, out |-> acc]
    ELSE LET first == emit_tracked_change(st, Head(changes))
         IN emit_all(first.st, Tail(changes), acc \o first.out)

\* the event of a tracked change, an anchored insertion placed where its
\* anchor starts
tc_event_at_anchor_start(base_text, change) ==
    IF change.change_type = DELETION
    THEN [pos |-> IF \E i \in 0..Len(base_text) :
                         /\ i + Len(change.text) <= Len(base_text)
                         /\ SubSeq(base_text, i + 1, i + Len(change.text)) = change.text
                  THEN CHOOSE i \in 0..Len(base_text) :
                         /\ i + Len(change.text) <= Len(base_text)
                         /\ SubSeq(base_text, i + 1, i + Len(change.text)) = change.text
                         /\ \A j \in 0..(i - 1) :
                               SubSeq(base_text, j + 1, j + Len(change.text)) # change.text
                  ELSE Len(base_text),
          kind |-> "del", payload |-> change]
    ELSE [pos |-> IF change.insert_after # <<>>
                     /\ \E i \in 0..Len(base_text) :
                           /\ i + Len(change.insert_after) <= Len(base_text)
                           /\ SubSeq(base_text, i + 1, i + Len(change.insert_after))
                                  = change.insert_after
                  THEN CHOOSE i \in 0..Len(base_text) :
                         /\ i + Len(change.insert_after) <= Len(base_text)
                         /\ SubSeq(base_text, i + 1, i + Len(change.insert_after))
                                = change.insert_after
                         /\ \A j \in 0..(i - 1) :
                               SubSeq(base_text, j + 1, j + Len(change.insert_after))
                                  # change.insert_after
                  ELSE Len(base_text),
          kind |-> "ins", payload |-> change]

\* the (position, kind, change) event of one tracked change
tc_event(base_text, change) ==
    IF change.change_type = DELETION
    THEN LET idx == Find(base_text, change.text)
         IN [pos |-> IF idx = -1 THEN Len(base_text) ELSE idx,
             kind |-> "del", payload |-> change]
    ELSE IF change.insert_after # <<>>
         THEN LET idx == Find(base_text, change.insert_after)
              IN [pos |-> IF idx # -1 THEN idx + Len(change.insert_after)
                          ELSE Len(base_text),
                  kind |-> "ins", payload |-> change]
         ELSE [pos |-> Len(base_text), kind |-> "ins", payload |-> change]

tc_events(base_text, changes) ==
    [i \in 1..Len(changes) |-> tc_event(base_text, changes[i])]

\* list.sort(key=...): stable, ascending by (pos, rank)
KeyLeq(a, b, rank) ==
    \/ a.pos < b.pos
    \/ a.pos = b.pos /\ rank[a.kind] <= rank[b.kind]

RECURSIVE InsertStable(_, _, _)
InsertStable(sorted, e, rank) ==
    IF sorted = <<>> THEN <<e>>
    ELSE IF KeyLeq(Head(sorted), e, rank)
         THEN <<Head(sorted)>> \o InsertStable(Tail(sorted), e, rank)
         ELSE <<e>> \o sorted

RECURSIVE SortEvents(_, _)
SortEvents(events, rank) ==
    IF events = <<>> THEN <<>>
    ELSE InsertStable(SortEvents(SubSeq(events, 1, Len(events) - 1), rank),
                      events[Len(events)], rank)

\* key=lambda e: (e[0], 0 if e[1] == "ins" else 1)
TcRank == [ins |-> 0, del |-> 1]

\* a tie-break table that puts insertions before comment range starts
ORDER_ins_first == [comment_start |-> 1, ins |-> 0, del |-> 2, comment_end |-> 3]

\* ORDER = {"comment_start": 0, "ins": 1, "del": 2, "comment_end": 3}
ORDER == [comment_start |-> 0, ins |-> 1, del |-> 2, comment_end |-> 3]

RECURSIVE WalkTrackedChanges(_, _, _, _, _)
\* _add_paragraph_with_tracked_changes, the walk over the sorted events
WalkTrackedChanges(st, base_text, events, cursor, acc) ==
    IF events = <<>>
    THEN [st |-> st,
          out |-> IF cursor < Len(base_text)
                  THEN Append(acc, add_text_run(Slice(base_text, cursor, Len(base_text))))
                  ELSE acc]
    ELSE LET e == Head(events)
             gap == IF e.pos > cursor
                    THEN <<add_text_run(Slice(base_text, cursor, e.pos))>>
                    ELSE <<>>
             emitted == emit_tracked_change(st, e.payload)
             next == IF e.kind = "del" THEN e.pos + Len(e.payload.text)
                     ELSE IF e.pos > cursor THEN e.pos ELSE cursor
         IN WalkTrackedChanges(emitted.st, base_text, Tail(events), next,
                               acc \o gap \o emitted.out)

\* _add_paragraph_with_tracked_changes
add_paragraph_with_tracked_changes(st, para_spec) ==
    IF para_spec.text = <<>>
    THEN LET Walked(w) == [st |-> w.st, out |-> w.out, events |-> <<>>]
         IN Walked(emit_all(st, para_spec.tracked_changes, <<>>))
    ELSE LET Walked(w, events) == [st |-> w.st, out |-> w.out, events |-> events]
             Walk(events) ==
                 Walked(WalkTrackedChanges(st, para_spec.text, events, 0, <<>>), events)
         IN Walk(SortEvents(tc_events(para_spec.text, para_spec.tracked_changes),
                            TcRank))

RECURSIVE reply_threads(_, _, _, _, _)
\* the loop over comment.replies: a comment id, a paragraph id and a durable
\* id of its own for every reply, linked to the parent's paragraph id
reply_threads(st, comment, replies, parent_para_id, reply_ids) ==
    IF replies = <<>> THEN [st |-> st, reply_ids |-> reply_ids]
    ELSE LET reply == Head(replies)
             reply_id == Str(st.comment_counter)
             p == generate_hex_id(st.rng, 8)
             d == generate_hex_id(p.rng, 8)
             st1 == [st EXCEPT
                       !.rng = d.rng,
                       !.comment_metadata = Append(@,
                           [id |-> reply_id,
                            para_id |-> Upper(p.id),
                            durable_id |-> Upper(d.id),
                            date |-> reply.date,
                            resolved |-> comment.resolved,
                            parent_para_id |-> parent_para_id]),
                       !.comment_counter = @ + 1]
         IN reply_threads(st1, comment, Tail(replies), parent_para_id,
                          Append(reply_ids, reply_id))

\* a resolver that draws the parent's durable id like a reply's
comment_thread_own_durable(st, comment) ==
    LET comment_id == Str(st.comment_counter)
        p == generate_hex_id(st.rng, 8)
        d == generate_hex_id(p.rng, 8)
        parent_para_id == Upper(p.id)
        st1 == [st EXCEPT
                  !.rng = d.rng,
                  !.comment_metadata = Append(@,
                      [id |-> comment_id,
                       para_id |-> parent_para_id,
                       durable_id |-> Upper(d.id),
                       date |-> comment.date,
                       resolved |-> comment.resolved,
                       parent_para_id |-> None]),
                  !.comment_counter = @ + 1]
        Thread(r) ==
            [st |-> r.st, info |-> [comment_id |-> comment_id, reply_ids |-> r.reply_ids]]
    IN Thread(reply_threads(st1, comment, comment.replies, parent_para_id, <<>>))

\* the comment's own record (durable id = paragraph id, no parent), then its
\* replies' records
comment_thread(st, comment) ==
    LET comment_id == Str(st.comment_counter)
        p == generate_hex_id(st.rng, 8)
        parent_para_id == Upper(p.id)
        durable_id == parent_para_id
        st1 == [st EXCEPT
                  !.rng = p.rng,
                  !.comment_metadata = Append(@,
                      [id |-> comment_id,
                       para_id |-> parent_para_id,
                       durable_id |-> durable_id,
                       date |-> comment.date,
                       resolved |-> comment.resolved,
                       parent_para_id |-> None]),
                  !.comment_counter = @ + 1]
        Thread(r) ==
            [st |-> r.st, info |-> [comment_id |-> comment_id, reply_ids |-> r.reply_ids]]
    IN Thread(reply_threads(st1, comment, comment.replies, parent_para_id, <<>>))

\* the markers of a thread, those of the replies before the comment's
Markers_replies_first(tag, info) ==
    [i \in 1..Len(info.reply_ids) |-> [tag |-> tag, id |-> info.reply_ids[i]]]
    \o <<[tag |-> tag, id |-> info.comment_id]>>

\* one marker of the given tag for the comment and for each of its replies
Markers(tag, info) ==
    <<[tag |-> tag, id |-> info.comment_id]>>
    \o [i \in 1..Len(info.reply_ids) |-> [tag |-> tag, id |-> info.reply_ids[i]]]

RECURSIVE add_paragraph_with_comments_from(_, _, _, _)
\* _add_paragraph_with_comments: the body of the loop, once per comment
add_paragraph_with_comments_from(st, full_text, comments, acc) ==
    IF comments = <<>> THEN [st |-> st, out |-> acc]
    ELSE LET comment == Head(comments)
             anchor_text == comment.anchor_text
             found == Contains(full_text, anchor_text)
             anchor_start == IF found THEN Find(full_text, anchor_text) ELSE 0
             anchor_end == IF found THEN anchor_start + Len(anchor_text)
                           ELSE Len(full_text)
             before_text == IF found THEN Slice(full_text, 0, anchor_start) ELSE <<>>
             after_text == IF found THEN Slice(full_text, anchor_end, Len(full_text))
                           ELSE <<>>
             Recorded(t) ==
                 add_paragraph_with_comments_from(
                     t.st, full_text, Tail(comments),
                     acc
                     \o (IF before_text # <<>> THEN <<plain_run(before_text, TRUE)>>
                         ELSE <<>>)
                     \o Markers("commentRangeStart", t.info)
                     \o <<plain_run(anchor_text, FALSE)>>
                     \o Markers("commentRangeEnd", t.info)
                     \o Markers("commentReference", t.info)
                     \o (IF after_text # <<>> THEN <<plain_run(after_text, FALSE)>>
                         ELSE <<>>))
         IN Recorded(comment_thread(st, comment))

\* _add_paragraph_with_comments
add_paragraph_with_comments(st, para_spec) ==
    LET Walked(w) == [st |-> w.st, out |-> w.out, events |-> <<>>]
    IN Walked(add_paragraph_with_comments_from(
                  st, para_spec.text, para_spec.comments, <<>>))

RECURSIVE comment_events(_, _, _, _)
\* step 2 of _add_paragraph_with_comments_and_tracked_changes: the records
\* of every comment and its (start, end) events
comment_events(st, base_text, comments, events) ==
    IF comments = <<>> THEN [st |-> st, events |-> events]
    ELSE LET comment == Head(comments)
             anchor_text == comment.anchor_text
             found == Contains(base_text, anchor_text)
             start == IF found THEN Find(base_text, anchor_text) ELSE 0
             end == IF found THEN start + Len(anchor_text) ELSE Len(base_text)
             Recorded(t) ==
                 comment_events(
                     t.st, base_text, Tail(comments),
                     events \o <<[pos |-> start, kind |-> "comment_start",
                                  payload |-> t.info],
                                 [pos |-> end, kind |-> "comment_end",
                                  payload |-> t.info]>>)
         IN Recorded(comment_thread(st, comment))

\* step 3: tc_events + comment_events, sorted by (position, ORDER)
merged_events(base_text, tc, ce) == SortEvents(tc \o ce, ORDER)

RECURSIVE WalkMerged(_, _, _, _, _)
\* step 4 of _add_paragraph_with_comments_and_tracked_changes
WalkMerged(st, base_text, events, cursor, acc) ==
    IF events = <<>>
    THEN [st |-> st,
          out |-> IF cursor < Len(base_text)
                  THEN Append(acc, add_text_run(Slice(base_text, cursor, Len(base_text))))
                  ELSE acc]
    ELSE LET e == Head(events)
             gap == IF e.pos > cursor
                    THEN <<add_text_run(Slice(base_text, cursor, e.pos))>>
                    ELSE <<>>
             advanced == IF e.pos > cursor THEN e.pos ELSE cursor
         IN CASE e.kind = "comment_start" ->
                   WalkMerged(st, base_text, Tail(events), advanced,
                              acc \o gap \o Markers("commentRangeStart", e.payload))
              [] e.kind = "comment_end" ->
                   WalkMerged(st, base_text, Tail(events), advanced,
                              acc \o gap \o Markers("commentRangeEnd", e.payload)
                              \o Markers("commentReference", e.payload))
              [] e.kind = "del" ->
                   LET emitted == emit_tracked_change(st, e.payload)
                   IN WalkMerged(emitted.st, base_text, Tail(events),
                                 e.pos + Len(e.payload.text),
                                 acc \o gap \o emitted.out)
              [] OTHER ->
                   LET emitted == emit_tracked_change(st, e.payload)
                   IN WalkMerged(emitted.st, base_text, Tail(events), advanced,
                                 acc \o gap \o emitted.out)

\* _add_paragraph_with_comments_and_tracked_changes
add_paragraph_with_comments_and_tracked_changes(st, para_spec) ==
    LET base_text == para_spec.text
        tc == tc_events(base_text, para_spec.tracked_changes)
        Walked(w, all_events) == [st |-> w.st, out |-> w.out, events |-> all_events]
        Walk(st1, all_events) ==
            Walked(WalkMerged(st1, base_text, all_events, 0, <<>>), all_events)
        Merge(ce) == Walk(ce.st, merged_events(base_text, tc, ce.events))
    IN Merge(comment_events(st, base_text, para_spec.comments, <<>>))

\* the dispatch at the end of _add_paragraph: the content of one paragraph
paragraph_content(st, para_spec) ==
    IF para_spec.comments # <<>> /\ para_spec.tracked_changes # <<>>
    THEN add_paragraph_with_comments_and_tracked_changes(st, para_spec)
    ELSE IF para_spec.comments # <<>>
    THEN add_paragraph_with_comments(st, para_spec)
    ELSE IF para_spec.tracked_changes # <<>>
    THEN add_paragraph_with_tracked_changes(st, para_spec)
    ELSE [st |-> st, out |-> <<plain_run(para_spec.text, FALSE)>>, events |-> <<>>]

\* _add_paragraph: <w:p> with its paraId, its properties when it is numbered
\* or a heading, and its content
add_paragraph(st, para_spec) ==
    LET pPr == IF para_spec.numbering # None
               THEN <<[tag |-> "pPr",
                       children |-> <<[tag |-> "pStyle", val |-> <<"ListParagraph">>],
                                      [tag |-> "numPr",
                                       ilvl |-> Str(Val(para_spec.numbering).level),
                                       numId |-> Str(Val(para_spec.numbering).numbering_id)]>>]>>
               ELSE IF para_spec.heading_level # None /\ Val(para_spec.heading_level) # 0
               THEN <<[tag |-> "pPr",
                       children |-> <<[tag |-> "pStyle",
                                       val |-> <<"Heading">>
                                               \o Str(Val(para_spec.heading_level))]>>]>>
               ELSE <<>>
        Element(para_id, content) ==
            [st |-> content.st,
             para |-> [tag |-> "p", paraId |-> para_id, children |-> pPr \o content.out],
             events |-> content.events]
        WithId(h) ==
            Element(h.id, paragraph_content([st EXCEPT !.rng = h.rng], para_spec))
    IN WithId(generate_hex_id(st.rng, 8))

(***************************************************************************)
(* Part names, relationship targets and relationship types are texts cut   *)
(* into tokens, the separators "/" and "." being tokens of their own.      *)
(***************************************************************************)
\* str.endswith
EndsWith(text, suffix) ==
    /\ Len(suffix) <= Len(text)
    /\ SubSeq(text, Len(text) - Len(suffix) + 1, Len(text)) = suffix

RECURSIVE LStripChars(_, _)
\* text.lstrip(chars)
LStripChars(text, chars) ==
    IF text # <<>> /\ Head(text) \in chars
    THEN LStripChars(Tail(text), chars) ELSE text

\* text.rsplit(sep, 1)[-1]
RSplitLast(text, sep) ==
    LET hits == {i \in 1..Len(text) : text[i] = sep}
    IN IF hits = {} THEN text
       ELSE SubSeq(text, (CHOOSE i \in hits : \A j \in hits : j <= i) + 1, Len(text))

\* the text itself, nothing split off
SplitNothing(text, sep) == text

\* text.split(sep, 1)[1]
SplitRest(text, sep) ==
    LET hits == {i \in 1..Len(text) : text[i] = sep}
    IN SubSeq(text, (CHOOSE i \in hits : \A j \in hits : i <= j) + 1, Len(text))

CONTENT_TYPES == <<"[Content_Types]", ".", "xml">>

ROOT_RELS == <<"_rels", "/", ".", "rels">>

DOCUMENT_XML == <<"word", "/", "document", ".", "xml">>

DOCUMENT_RELS == <<"word", "/", "_rels", "/", "document", ".", "xml", ".", "rels">>

COMMENTS_XML == <<"word", "/", "comments", ".", "xml">>

\* DocumentValidator.REQUIRED_FILES
REQUIRED_FILES == <<CONTENT_TYPES, ROOT_RELS, DOCUMENT_XML>>

\* "<stem>.xml"
XmlName(stem) == <<stem, ".", "xml">>

\* "word/<target>"
WordPart(target) == <<"word", "/">> \o target

THEME_TARGET == <<"theme", "/", "theme1", ".", "xml">>

CORE_XML == <<"docProps", "/", "core", ".", "xml">>

APP_XML == <<"docProps", "/", "app", ".", "xml">>

OfficeDocumentRel ==
    "http://schemas.openxmlformats.org/officeDocument/2006/relationships"

\* "<namespace>/<name>"
RelType(ns, name) == <<ns, "/", name>>

\* one <Relationship Id= Type= Target=>
Relationship(Id, Type, Target) == [Id |-> Id, Type |-> Type, Target |-> Target]

\* f"rId{n}"
\* relationship ids counted from 0
RId_from_zero(n) == <<"rId">> \o Str(n - 1)

RId(n) == <<"rId">> \o Str(n)

\* one member of the archive
Entry(name, content) == [name |-> name, content |-> content]

(***************************************************************************)
(* Sections and documents (src/docxfix/spec.py).                           *)
(***************************************************************************)
PORTRAIT == "portrait"

LANDSCAPE == "landscape"

\* NumberedParagraph(level, numbering_id)
NumberedParagraph(level, numbering_id) ==
    [level |-> level, numbering_id |-> numbering_id]

\* HeaderFooterSet(default, first, even)
HeaderFooterSet(default, first, even) ==
    [default |-> default, first |-> first, even |-> even]

\* SectionSpec(start_paragraph, break_type, orientation,
\*             restart_page_numbering, page_number_start, headers, footers)
SectionSpec(start_paragraph, break_type, orientation, restart_page_numbering, page_number_start, headers, footers) ==
    [start_paragraph |-> start_paragraph, break_type |-> break_type,
     orientation |-> orientation,
     restart_page_numbering |-> restart_page_numbering,
     page_number_start |-> page_number_start,
     headers |-> headers, footers |-> footers]

\* SectionSpec(start_paragraph=start): every other field at its default
DefaultSection(start) ==
    SectionSpec(start, "nextPage", PORTRAIT, FALSE, None,
                HeaderFooterSet(None, None, None), HeaderFooterSet(None, None, None))

\* DocumentSpec(paragraphs, title, author, seed, sections), __post_init__
\* included: the section list always holds a section that starts at 0
DocumentSpec(paragraphs, title, author, seed, sections) ==
    [paragraphs |-> paragraphs, title |-> title, author |-> author, seed |-> seed,
     sections |->
         IF sections = <<>> THEN <<DefaultSection(0)>>
         ELSE IF \A i \in 1..Len(sections) : sections[i].start_paragraph # 0
         THEN <<DefaultSection(0)>> \o sections
         ELSE sections]

(***************************************************************************)
(* Section and header/footer wiring.                                       *)
(***************************************************************************)
RECURSIVE InsertByStart(_, _)
InsertByStart(sorted, section) ==
    IF sorted = <<>> THEN <<section>>
    ELSE IF Head(sorted).start_paragraph <= section.start_paragraph
         THEN <<Head(sorted)>> \o InsertByStart(Tail(sorted), section)
         ELSE <<section>> \o sorted

RECURSIVE SortByStart(_)
\* sorted(sections, key=lambda section: section.start_paragraph): stable
SortByStart(sections) ==
    IF sections = <<>> THEN <<>>
    ELSE InsertByStart(SortByStart(SubSeq(sections, 1, Len(sections) - 1)),
                       sections[Len(sections)])

RECURSIVE KeepSections_repeats(_, _, _, _)
\* the loop without its test on the starts seen so far
KeepSections_repeats(sections, paragraph_count, seen, normalized) ==
    IF sections = <<>> THEN normalized
    ELSE IF Head(sections).start_paragraph >= paragraph_count /\ paragraph_count > 0
    THEN KeepSections_repeats(Tail(sections), paragraph_count, seen, normalized)
    ELSE KeepSections_repeats(Tail(sections), paragraph_count, seen,
                              Append(normalized, Head(sections)))

RECURSIVE KeepSections(_, _, _, _)
\* the loop of _normalize_sections: drop the sections that start at or after
\* the paragraph count (when there are paragraphs) and the repeated starts
KeepSections(sections, paragraph_count, seen, normalized) ==
    IF sections = <<>> THEN normalized
    ELSE LET section == Head(sections)
         IN IF section.start_paragraph >= paragraph_count /\ paragraph_count > 0
            THEN KeepSections(Tail(sections), paragraph_count, seen, normalized)
            ELSE IF section.start_paragraph \in seen
            THEN KeepSections(Tail(sections), paragraph_count, seen, normalized)
            ELSE KeepSections(Tail(sections), paragraph_count,
                              seen \cup {section.start_paragraph},
                              Append(normalized, section))

\* _normalize_sections
normalize_sections(spec) ==
    LET normalized == KeepSections(SortByStart(spec.sections),
                                   Len(spec.paragraphs), {}, <<>>)
    IN IF normalized = <<>> THEN <<DefaultSection(0)>>
       ELSE IF normalized[1].start_paragraph # 0
       THEN <<DefaultSection(0)>> \o normalized
       ELSE normalized

\* DocumentGenerator.__init__, the seeding apart: the fields of the instance
DocumentGenerator(spec) ==
    [spec |-> spec,
     revision_counter |-> 0,
     comment_counter |-> 0,
     comment_metadata |-> <<>>,
     section_layout |-> normalize_sections(spec),
     section_header_footer_refs |-> <<>>]

\* DocumentGenerator.__init__, the seeding: random.seed(spec.seed) on the
\* module-level generator when the spec has a seed
seed_global(spec, rng) ==
    IF spec.seed # None THEN SeedState(Val(spec.seed)) ELSE rng

\* the instance at work: its fields and the module-level generator it draws from
Running(g, rng) == [rng |-> rng] @@ g

\* the fields of the instance
Instance(st) == [f \in (DOMAIN st) \ {"rng"} |-> st[f]]

\* the (kind, variant) pairs in the order the manifest loops take them
Slots ==
    <<[kind |-> "header", variant |-> "default"],
      [kind |-> "header", variant |-> "first"],
      [kind |-> "header", variant |-> "even"],
      [kind |-> "footer", variant |-> "default"],
      [kind |-> "footer", variant |-> "first"],
      [kind |-> "footer", variant |-> "even"]>>

content_type_map ==
    [header |-> "application/vnd.openxmlformats-officedocument.wordprocessingml.header+xml",
     footer |-> "application/vnd.openxmlformats-officedocument.wordprocessingml.footer+xml"]

RECURSIVE ManifestFrom(_, _, _)
\* the loops of _build_section_part_manifest; k counts the (section, kind,
\* variant) triples taken so far
ManifestFrom(layout, k, manifest) ==
    IF k = Len(layout) * Len(Slots) THEN manifest
    ELSE LET section_index == k \div Len(Slots)
             slot == Slots[(k % Len(Slots)) + 1]
             section == layout[section_index + 1]
             set_obj == IF slot.kind = "header" THEN section.headers
                        ELSE section.footers
             text == set_obj[slot.variant]
             part_name == <<slot.kind>> \o Str(Len(manifest) + 1) \o <<".", "xml">>
         IN IF text = None THEN ManifestFrom(layout, k + 1, manifest)
            ELSE ManifestFrom(layout, k + 1, Append(manifest,
                     [section_index |-> section_index,
                      kind |-> slot.kind,
                      variant |-> slot.variant,
                      path |-> <<"word", "/">> \o part_name,
                      target |-> part_name,
                      text |-> Val(text),
                      relationship_type |-> RelType(OfficeDocumentRel, slot.kind),
                      content_type |-> content_type_map[slot.kind]]))

\* _build_section_part_manifest: the manifest, and the references of every
\* entry reset to the empty id
build_section_part_manifest(st) ==
    LET manifest == ManifestFrom(st.section_layout, 0, <<>>)
        keys == {<<manifest[i].section_index, manifest[i].kind, manifest[i].variant>> :
                    i \in 1..Len(manifest)}
    IN [st |-> [st EXCEPT !.section_header_footer_refs = [key \in keys |-> <<>>]],
        manifest |-> manifest]

\* the reference of that kind and variant of the first section, whatever
\* the section asked for
RefOf_first_section(refs, section_index, kind, variant) ==
    IF <<0, kind, variant>> \in DOMAIN refs THEN refs[<<0, kind, variant>>] ELSE <<>>

\* refs.get(kind, {}).get(variant) of section section_index
RefOf(refs, section_index, kind, variant) ==
    IF <<section_index, kind, variant>> \in DOMAIN refs
    THEN refs[<<section_index, kind, variant>>] ELSE <<>>

(***************************************************************************)
(* The parts of the container.                                             *)
(***************************************************************************)
\* what the serializer writes for the characters of a text node
XmlEscapeChar(c) ==
    CASE c = "&" -> "&amp;" [] c = "<" -> "&lt;" [] c = ">" -> "&gt;" [] OTHER -> c

\* etree.tostring on a text node
XmlEscape(text) == [i \in 1..Len(text) |-> XmlEscapeChar(text[i])]

\* "/" + a part name
PartName(path) == <<"/">> \o path

\* _create_content_types
create_content_types(has_comments, has_numbering, section_parts) ==
    [kind |-> "Types",
     defaults |-> << <<"rels">>, <<"xml">> >>,
     overrides |->
         <<PartName(DOCUMENT_XML)>>
         \o (IF has_comments
             THEN <<PartName(COMMENTS_XML),
                    PartName(WordPart(XmlName("commentsExtended"))),
                    PartName(WordPart(XmlName("commentsIds")))>>
             ELSE <<>>)
         \o (IF has_numbering
             THEN <<PartName(WordPart(XmlName("numbering"))),
                    PartName(WordPart(XmlName("styles")))>>
             ELSE <<>>)
         \o [i \in 1..Len(section_parts) |->
                <<"/", "word", "/">> \o SplitRest(section_parts[i].path, "/")]
         \o <<PartName(WordPart(XmlName("settings"))),
              PartName(WordPart(XmlName("webSettings"))),
              PartName(WordPart(XmlName("footnotes"))),
              PartName(WordPart(XmlName("endnotes"))),
              PartName(WordPart(XmlName("fontTable"))),
              PartName(WordPart(THEME_TARGET)),
              PartName(CORE_XML),
              PartName(APP_XML)>>]

\* _create_rels
create_rels ==
    [kind |-> "Relationships",
     rels |-> <<Relationship(RId(1), RelType(OfficeDocumentRel, "officeDocument"),
                             DOCUMENT_XML),
                Relationship(RId(2),
                    <<"http://schemas.openxmlformats.org/package/2006/relationships",
                      "/", "metadata", "/", "core-properties">>,
                    CORE_XML),
                Relationship(RId(3), RelType(OfficeDocumentRel, "extended-properties"),
                             APP_XML)>>]

\* _create_document_rels: the relationships, numbered from rId1 in the order
\* they are added, and the id of every header/footer part recorded
create_document_rels(st, has_comments, has_numbering, section_parts) ==
    LET comment_rels ==
            IF has_comments
            THEN <<[Type |-> RelType(OfficeDocumentRel, "comments"),
                    Target |-> XmlName("comments")],
                   [Type |-> RelType("http://schemas.microsoft.com/office/2011/relationships",
                                     "commentsExtended"),
                    Target |-> XmlName("commentsExtended")],
                   [Type |-> RelType("http://schemas.microsoft.com/office/2016/09/relationships",
                                     "commentsIds"),
                    Target |-> XmlName("commentsIds")]>>
            ELSE <<>>
        numbering_rels ==
            IF has_numbering
            THEN <<[Type |-> RelType(OfficeDocumentRel, "numbering"),
                    Target |-> XmlName("numbering")],
                   [Type |-> RelType(OfficeDocumentRel, "styles"),
                    Target |-> XmlName("styles")]>>
            ELSE <<>>
        section_rels ==
            [i \in 1..Len(section_parts) |->
                [Type |-> section_parts[i].relationship_type,
                 Target |-> section_parts[i].target]]
        fixed_rels ==
            <<[Type |-> RelType(OfficeDocumentRel, "settings"), Target |-> XmlName("settings")],
              [Type |-> RelType(OfficeDocumentRel, "webSettings"),
               Target |-> XmlName("webSettings")],
              [Type |-> RelType(OfficeDocumentRel, "footnotes"), Target |-> XmlName("footnotes")],
              [Type |-> RelType(OfficeDocumentRel, "endnotes"), Target |-> XmlName("endnotes")],
              [Type |-> RelType(OfficeDocumentRel, "fontTable"), Target |-> XmlName("fontTable")],
              [Type |-> RelType(OfficeDocumentRel, "theme"), Target |-> THEME_TARGET]>>
        before == Len(comment_rels) + Len(numbering_rels)
        all == comment_rels \o numbering_rels \o section_rels \o fixed_rels
        assigned ==
            [key \in DOMAIN st.section_header_footer_refs |->
                LET i == CHOOSE j \in 1..Len(section_parts) :
                             key = <<section_parts[j].section_index,
                                     section_parts[j].kind, section_parts[j].variant>>
                IN RId(before + i)]
    IN [st |-> [st EXCEPT !.section_header_footer_refs = assigned],
        part |-> [kind |-> "Relationships",
                  rels |-> [i \in 1..Len(all) |->
                               Relationship(RId(i), all[i].Type, all[i].Target)]]]

\* self._section_layout.index(section), 0-based
LayoutIndex(layout, section) ==
    (CHOOSE i \in 1..Len(layout) :
        /\ layout[i] = section
        /\ \A j \in 1..(i - 1) : layout[j] # section) - 1

\* the <w:sectPr> of _add_section_properties: the break type (on a
\* paragraph-level block), the header/footer references that have an id,
\* titlePg, pgNumType, and the page geometry
section_properties(st, section, is_body_level) ==
    LET section_index == LayoutIndex(st.section_layout, section)
        refs == st.section_header_footer_refs
        rid(slot) == RefOf(refs, section_index, slot.kind, slot.variant)
        references ==
            SelectSeq([i \in 1..Len(Slots) |->
                          [tag |-> IF Slots[i].kind = "header" THEN "headerReference"
                                   ELSE "footerReference",
                           type |-> Slots[i].variant,
                           id |-> rid(Slots[i])]],
                      LAMBDA e : e.id # <<>>)
        first_page == \/ RefOf(refs, section_index, "header", "first") # <<>>
                      \/ RefOf(refs, section_index, "footer", "first") # <<>>
    IN [tag |-> "sectPr",
        children |->
            (IF is_body_level THEN <<>>
             ELSE <<[tag |-> "type", val |-> section.break_type]>>)
            \o references
            \o (IF first_page THEN <<[tag |-> "titlePg"]>> ELSE <<>>)
            \o (IF section.restart_page_numbering \/ section.page_number_start # None
                THEN <<[tag |-> "pgNumType",
                        start |-> IF section.page_number_start # None
                                  THEN Str(Val(section.page_number_start))
                                  ELSE <<"1">>]>>
                ELSE <<>>)
            \o <<[tag |-> "pgSz",
                  orient |-> IF section.orientation = LANDSCAPE THEN Some("landscape")
                             ELSE None],
                 [tag |-> "pgMar"], [tag |-> "cols"], [tag |-> "docGrid"]>>]

\* the block of the section, with the break type of the section that starts
\* after the paragraph in place of its own
add_section_properties_next_break(st, para, section) ==
    LET own == section_properties(st, section, FALSE)
        next == st.section_layout[LayoutIndex(st.section_layout, section) + 2]
        sect_pr == [own EXCEPT !.children[1].val = next.break_type]
        p_prs == {i \in 1..Len(para.children) : para.children[i].tag = "pPr"}
    IN IF p_prs # {}
       THEN [para EXCEPT !.children[CHOOSE i \in p_prs : \A j \in p_prs : i <= j].children =
                Append(@, sect_pr)]
       ELSE [para EXCEPT !.children =
                Append(@, [tag |-> "pPr", children |-> <<sect_pr>>])]

\* the block put in front of what the paragraph's <w:pPr> holds, the
\* <w:pPr> appended to the paragraph when it has none
add_section_properties_prepend(st, para, section) ==
    LET sect_pr == section_properties(st, section, FALSE)
        p_prs == {i \in 1..Len(para.children) : para.children[i].tag = "pPr"}
    IN IF p_prs # {}
       THEN [para EXCEPT !.children[CHOOSE i \in p_prs : \A j \in p_prs : i <= j].children =
                <<sect_pr>> \o @]
       ELSE [para EXCEPT !.children =
                Append(@, [tag |-> "pPr", children |-> <<sect_pr>>])]

\* _add_section_properties on a paragraph: the block goes to the end of the
\* paragraph's <w:pPr>, which is appended to the paragraph when it has none
add_section_properties(st, para, section) ==
    LET sect_pr == section_properties(st, section, FALSE)
        has_pPr == \E i \in 1..Len(para.children) : para.children[i].tag = "pPr"
        p_pr == CHOOSE i \in 1..Len(para.children) :
                    /\ para.children[i].tag = "pPr"
                    /\ \A j \in 1..(i - 1) : para.children[j].tag # "pPr"
    IN IF has_pPr
       THEN [para EXCEPT !.children[p_pr].children = Append(@, sect_pr)]
       ELSE [para EXCEPT !.children =
                Append(@, [tag |-> "pPr", children |-> <<sect_pr>>])]

RECURSIVE DocumentBody(_, _, _)
\* the loop of _create_document over the paragraphs
DocumentBody(st, para_index, body) ==
    IF para_index = Len(st.spec.paragraphs) THEN [st |-> st, body |-> body]
    ELSE LET sections == st.section_layout
             section_starts ==
                 [i \in 1..Len(sections) |-> sections[i].start_paragraph]
                 \o <<Len(st.spec.paragraphs)>>
             ending == {idx \in 1..(Len(sections) - 1) :
                           section_starts[idx + 1] - 1 = para_index}
             WithBreak(para) ==
                 IF ending = {} THEN para
                 ELSE add_section_properties(
                          st, para,
                          sections[CHOOSE idx \in ending :
                                       \A other \in ending : other <= idx])
             Added(r) == DocumentBody(r.st, para_index + 1,
                                      Append(body, WithBreak(r.para)))
         IN Added(add_paragraph(st, st.spec.paragraphs[para_index + 1]))

\* etree.tostring on an element of the body: its texts escaped
Serialize(e) ==
    IF e.tag = "p"
    THEN [e EXCEPT !.children =
             [i \in 1..Len(@) |->
                 IF @[i].tag \in {"r", "ins", "del"}
                 THEN [@[i] EXCEPT !.text = XmlEscape(@)]
                 ELSE @[i]]]
    ELSE e

\* the document closed with the block of the first section
create_document_first_section(st) ==
    LET Part(st1, body) ==
            [st |-> st1,
             part |-> [kind |-> "document",
                       body |-> [i \in 1..Len(body) |-> Serialize(body[i])]]]
        Closed(walked) ==
            Part(walked.st,
                 Append(walked.body, section_properties(st, st.section_layout[1], TRUE)))
    IN Closed(DocumentBody(st, 0, <<>>))

\* _create_document
create_document(st) ==
    LET sections == st.section_layout
        Part(st1, body) ==
            [st |-> st1,
             part |-> [kind |-> "document",
                       body |-> [i \in 1..Len(body) |-> Serialize(body[i])]]]
        Closed(walked) ==
            Part(walked.st,
                 Append(walked.body,
                        section_properties(st, sections[Len(sections)], TRUE)))
    IN Closed(DocumentBody(st, 0, <<>>))

\* _create_settings
create_settings(st) ==
    [kind |-> "settings",
     evenAndOddHeaders |->
         \E i \in 1..Len(st.section_layout) :
             \/ st.section_layout[i].headers.even # None
             \/ st.section_layout[i].footers.even # None]

\* _create_footnotes, _create_endnotes: two separators, each with a paragraph
\* id drawn by _add_note_separator
create_notes(st, kind) ==
    LET first == generate_hex_id(st.rng, 8)
        second == generate_hex_id(first.rng, 8)
    IN [st |-> [st EXCEPT !.rng = second.rng],
        part |-> [kind |-> kind,
                  notes |-> <<[type |-> "separator", id |-> <<"-", "1">>,
                               paraId |-> first.id],
                              [type |-> "continuationSeparator", id |-> <<"0">>,
                               paraId |-> second.id]>>]]

\* _create_core_properties: an f-string; title, author and the wall clock
\* are put between the tags as they are
create_core_properties(st, now) ==
    [kind |-> "coreProperties",
     chars |-> <<"<dc:title>">> \o st.spec.title \o <<"</dc:title>">>
               \o <<"<dc:creator>">> \o st.spec.author \o <<"</dc:creator>">>
               \o <<"<dcterms:created>">> \o strftime(now) \o <<"</dcterms:created>">>
               \o <<"<dcterms:modified>">> \o strftime(now) \o <<"</dcterms:modified>">>]

\* _create_header_footer_part
create_header_footer_part(kind, text) ==
    [kind |-> IF kind = "header" THEN "hdr" ELSE "ftr", chars |-> XmlEscape(text)]

\* _create_comments
create_comments(st) ==
    [kind |-> "comments",
     comments |-> [i \in 1..Len(st.comment_metadata) |->
                      [id |-> st.comment_metadata[i].id,
                       paraId |-> st.comment_metadata[i].para_id]]]

\* _create_comments_extended
create_comments_extended(st) ==
    [kind |-> "commentsEx",
     entries |-> [i \in 1..Len(st.comment_metadata) |->
                     [paraId |-> st.comment_metadata[i].para_id,
                      done |-> IF st.comment_metadata[i].resolved THEN "1" ELSE "0",
                      paraIdParent |-> st.comment_metadata[i].parent_para_id]]]

\* _create_comments_ids
create_comments_ids(st) ==
    [kind |-> "commentsIds",
     entries |-> [i \in 1..Len(st.comment_metadata) |->
                     [paraId |-> st.comment_metadata[i].para_id,
                      durableId |-> st.comment_metadata[i].durable_id]]]

\* _add_list_abstract_num: the abstract definition of the lists, id 0
add_list_abstract_num(numbering) ==
    Append(numbering, [tag |-> "abstractNum", abstractNumId |-> <<"0">>,
                       headings |-> FALSE])

\* _add_heading_abstract_num: the abstract definition of the headings, its
\* levels referring back to the heading styles; id 1 if the lists took 0
add_heading_abstract_num(numbering) ==
    LET existing == SelectSeq(numbering, LAMBDA e : e.tag = "abstractNum")
        abstract_id == Str(Len(existing))
    IN Append(numbering, [tag |-> "abstractNum", abstractNumId |-> abstract_id,
                          headings |-> TRUE])

\* _create_numbering: the abstract definitions, then the instances
create_numbering(has_list_numbering, has_heading_numbering) ==
    LET lists == IF has_list_numbering THEN add_list_abstract_num(<<>>) ELSE <<>>
        abstracts == IF has_heading_numbering THEN add_heading_abstract_num(lists)
                     ELSE lists
        list_num == IF has_list_numbering
                    THEN <<[tag |-> "num", numId |-> <<"1">>,
                            abstractNumId |-> <<"0">>]>>
                    ELSE <<>>
        heading_num == IF has_heading_numbering
                       THEN <<[tag |-> "num",
                               numId |-> IF has_list_numbering THEN <<"2">> ELSE <<"1">>,
                               abstractNumId |-> IF has_list_numbering THEN <<"1">>
                                                 ELSE <<"0">>]>>
                       ELSE <<>>
    IN [kind |-> "numbering", children |-> abstracts \o list_num \o heading_num]

\* _add_heading_styles: Heading1..Heading4, each with a numPr that names
\* the instance of the headings
add_heading_styles(st) ==
    LET has_list == \E i \in 1..Len(st.spec.paragraphs) :
                        st.spec.paragraphs[i].numbering # None
        heading_num_id == IF has_list THEN <<"2">> ELSE <<"1">>
    IN [n \in 1..4 |-> [tag |-> "style", styleId |-> <<"Heading">> \o Str(n),
                        ilvl |-> n - 1, numId |-> heading_num_id]]

\* _create_styles: the styles every document has, then the heading styles
create_styles(st, has_heading_numbering) ==
    [kind |-> "styles",
     styles |-> <<[tag |-> "style", styleId |-> <<"Normal">>],
                  [tag |-> "style", styleId |-> <<"DefaultParagraphFont">>],
                  [tag |-> "style", styleId |-> <<"TableNormal">>],
                  [tag |-> "style", styleId |-> <<"NoList">>],
                  [tag |-> "style", styleId |-> <<"ListParagraph">>]>>
                \o (IF has_heading_numbering THEN add_heading_styles(st) ELSE <<>>)]

\* a part whose bytes are a constant of the module
Boilerplate == [kind |-> "boilerplate"]

\* DocumentGenerator.generate: the members of the archive, in the order they
\* are written, and the instance afterwards; now is the wall clock
generate(st0, now) ==
    LET paragraphs == st0.spec.paragraphs
        has_comments == \E i \in 1..Len(paragraphs) : paragraphs[i].comments # <<>>
        has_numbering == \E i \in 1..Len(paragraphs) : paragraphs[i].numbering # None
        has_heading_numbering ==
            \E i \in 1..Len(paragraphs) :
                /\ paragraphs[i].heading_level # None
                /\ Val(paragraphs[i].heading_level) # 0
        needs_numbering == has_numbering \/ has_heading_numbering
        Archive(section_parts, rels, document, footnotes, endnotes, st) ==
          [st |-> st,
           entries |->
            <<Entry(CONTENT_TYPES,
                    create_content_types(has_comments, needs_numbering, section_parts)),
              Entry(ROOT_RELS, create_rels),
              Entry(DOCUMENT_RELS, rels.part),
              Entry(DOCUMENT_XML, document.part),
              Entry(WordPart(XmlName("settings")), create_settings(st)),
              Entry(WordPart(XmlName("webSettings")), Boilerplate),
              Entry(WordPart(XmlName("footnotes")), footnotes.part),
              Entry(WordPart(XmlName("endnotes")), endnotes.part),
              Entry(WordPart(XmlName("fontTable")), Boilerplate),
              Entry(WordPart(THEME_TARGET), Boilerplate),
              Entry(CORE_XML, create_core_properties(st, now)),
              Entry(APP_XML, Boilerplate)>>
            \o [i \in 1..Len(section_parts) |->
                   Entry(section_parts[i].path,
                         create_header_footer_part(section_parts[i].kind,
                                                   section_parts[i].text))]
            \o (IF has_comments
                THEN <<Entry(COMMENTS_XML, create_comments(st)),
                       Entry(WordPart(XmlName("commentsExtended")),
                             create_comments_extended(st)),
                       Entry(WordPart(XmlName("commentsIds")), create_comments_ids(st))>>
                ELSE <<>>)
            \o (IF needs_numbering
                THEN <<Entry(WordPart(XmlName("numbering")),
                             create_numbering(has_numbering, has_heading_numbering)),
                       Entry(WordPart(XmlName("styles")),
                             create_styles(st, has_heading_numbering))>>
                ELSE <<>>)]
        WithEndnotes(m, rels, document, footnotes, endnotes) ==
            Archive(m.manifest, rels, document, footnotes, endnotes, endnotes.st)
        WithFootnotes(m, rels, document, footnotes) ==
            WithEndnotes(m, rels, document, footnotes,
                         create_notes(footnotes.st, "endnotes"))
        WithDocument(m, rels, document) ==
            WithFootnotes(m, rels, document, create_notes(document.st, "footnotes"))
        WithRels(m, rels) == WithDocument(m, rels, create_document(rels.st))
        WithManifest(m) ==
            WithRels(m, create_document_rels(m.st, has_comments, needs_numbering,
                                             m.manifest))
    IN WithManifest(build_section_part_manifest(st0))

(***************************************************************************)
(* The structural validator (src/docxfix/validator.py).                    *)
(***************************************************************************)
\* a .docx on disk: a ZIP archive and its members in the order written
Zip(entries) == [kind |-> "zip", entries |-> entries]

\* set(docx_zip.namelist())
Available(c) == {c.entries[i].name : i \in 1..Len(c.entries)}

\* ZipFile.read(name): the member of that name written last
read(c, name) ==
    c.entries[CHOOSE i \in 1..Len(c.entries) :
                  /\ c.entries[i].name = name
                  /\ \A j \in (i + 1)..Len(c.entries) : c.entries[j].name # name].content

\* a check that raised nothing
Passed == [status |-> "passed"]

\* raise ValidationError(...): the check that raised, its message and the
\* ids or parts the message names
ValidationError(check, reason, names) ==
    [status |-> "ValidationError", check |-> check, reason |-> reason, names |-> names]

\* the KeyError of ZipFile.read on a name the archive does not hold
KeyError(check, name) ==
    [status |-> "KeyError", check |-> check, reason |-> "There is no item named",
     names |-> {name}]

\* the first of the results that is not Passed
FirstError(results) ==
    LET bad == {i \in 1..Len(results) : results[i] # Passed}
    IN IF bad = {} THEN Passed
       ELSE results[CHOOSE i \in bad : \A j \in bad : i <= j]

\* _validate_zip_structure
validate_zip_structure(c) ==
    IF c.kind = "missing" THEN ValidationError("zip_structure", "File not found", {})
    ELSE IF c.kind # "zip"
    THEN ValidationError("zip_structure", "Not a valid ZIP file", {})
    ELSE FirstError([i \in 1..Len(REQUIRED_FILES) |->
             IF REQUIRED_FILES[i] \notin Available(c)
             THEN ValidationError("zip_structure", "Missing required file",
                                  {REQUIRED_FILES[i]})
             ELSE Passed])

\* the character data of a part as it stands in the bytes of the part
CharData(content) ==
    IF content.kind \in {"coreProperties", "hdr", "ftr"} THEN <<content.chars>>
    ELSE IF content.kind = "document"
    THEN Concat([i \in 1..Len(content.body) |->
             IF content.body[i].tag = "p"
             THEN LET ch == content.body[i].children
                  IN [k \in 1..Len(ch) |->
                         IF ch[k].tag \in {"r", "ins", "del"} THEN ch[k].text ELSE <<>>]
             ELSE <<>>])
    ELSE <<>>

\* etree.fromstring raises no XMLSyntaxError: the bytes are XML, and no
\* character data holds a bare "&" or "<"
Parses(content) ==
    /\ content.kind # "malformed"
    /\ \A i \in 1..Len(CharData(content)) :
          \A k \in 1..Len(CharData(content)[i]) :
              CharData(content)[i][k] \notin {"&", "<"}

\* _validate_xml_wellformedness
validate_xml_wellformedness(c) ==
    FirstError([i \in 1..Len(c.entries) |->
        IF /\ \/ EndsWith(c.entries[i].name, <<".", "xml">>)
              \/ EndsWith(c.entries[i].name, <<".", "rels">>)
           /\ ~Parses(read(c, c.entries[i].name))
        THEN ValidationError("xml_wellformedness", "XML syntax error",
                             {c.entries[i].name})
        ELSE Passed])

\* doc_root.findall(".//w:sectPr"): the section-properties blocks of the
\* body, in document order
SectPrs(body) ==
    Concat([i \in 1..Len(body) |->
        IF body[i].tag = "sectPr" THEN <<body[i]>>
        ELSE IF body[i].tag = "p"
        THEN Concat([k \in 1..Len(body[i].children) |->
                 IF body[i].children[k].tag = "pPr"
                 THEN SelectSeq(body[i].children[k].children,
                                LAMBDA e : e.tag = "sectPr")
                 ELSE <<>>])
        ELSE <<>>])

\* the header references, then the footer references, of one block
References(sect_pr) ==
    SelectSeq(sect_pr.children, LAMBDA e : e.tag = "headerReference")
    \o SelectSeq(sect_pr.children, LAMBDA e : e.tag = "footerReference")

\* rel_by_id[rid]: the relationship of that Id listed last
RelById(rels, rid) ==
    rels[CHOOSE i \in 1..Len(rels) :
             /\ rels[i].Id = rid
             /\ \A j \in (i + 1)..Len(rels) : rels[j].Id # rid]

\* a reference check that never looks for the target among the members
check_reference_target_unchecked(c, rels, ref) ==
    LET rid == ref.id
        expected == IF ref.tag = "headerReference" THEN "header" ELSE "footer"
    IN IF rid = <<>>
       THEN ValidationError("section_header_footer_integrity",
                            "is missing r:id", {})
       ELSE IF \A i \in 1..Len(rels) : rels[i].Id # rid
       THEN ValidationError("section_header_footer_integrity",
                            "references missing relationship", {rid})
       ELSE IF ~EndsWith(RelById(rels, rid).Type, <<"/", expected>>)
       THEN ValidationError("section_header_footer_integrity",
                            "type mismatch", {rid})
       ELSE IF RelById(rels, rid).Target = <<>>
       THEN ValidationError("section_header_footer_integrity",
                            "has no target", {rid})
       ELSE Passed

\* the body of the innermost loop of
\* _validate_section_header_footer_integrity
check_reference(c, rels, ref) ==
    LET rid == ref.id
        expected == IF ref.tag = "headerReference" THEN "header" ELSE "footer"
    IN IF rid = <<>>
       THEN ValidationError("section_header_footer_integrity",
                            "is missing r:id", {})
       ELSE IF \A i \in 1..Len(rels) : rels[i].Id # rid
       THEN ValidationError("section_header_footer_integrity",
                            "references missing relationship", {rid})
       ELSE LET rel == RelById(rels, rid)
                target_path == <<"word", "/">> \o LStripChars(rel.Target, {".", "/"})
            IN IF ~EndsWith(rel.Type, <<"/", expected>>)
               THEN ValidationError("section_header_footer_integrity",
                                    "type mismatch", {rid})
               ELSE IF rel.Target = <<>>
               THEN ValidationError("section_header_footer_integrity",
                                    "has no target", {rid})
               ELSE IF target_path \notin Available(c)
               THEN ValidationError("section_header_footer_integrity",
                                    "Missing section part", {rid, target_path})
               ELSE Passed

\* _validate_section_header_footer_integrity
validate_section_header_footer_integrity(c) ==
    IF DOCUMENT_RELS \notin Available(c)
    THEN KeyError("section_header_footer_integrity", DOCUMENT_RELS)
    ELSE LET sect_prs == SectPrs(read(c, DOCUMENT_XML).body)
             refs == Concat([i \in 1..Len(sect_prs) |-> References(sect_prs[i])])
             rels == read(c, DOCUMENT_RELS).rels
         IN FirstError([i \in 1..Len(refs) |-> check_reference(c, rels, refs[i])])

\* {x for x in ids if ids.count(x) > 1}
Dupes(ids) ==
    {ids[i] : i \in {k \in 1..Len(ids) : \E j \in 1..Len(ids) : j # k /\ ids[j] = ids[k]}}

\* _validate_comment_id_uniqueness
validate_comment_id_uniqueness(c) ==
    IF COMMENTS_XML \notin Available(c) THEN Passed
    ELSE LET comments == read(c, COMMENTS_XML).comments
             ids == [i \in 1..Len(comments) |-> comments[i].id]
         IN IF Dupes(ids) # {}
            THEN ValidationError("comment_id_uniqueness", "Duplicate comment IDs",
                                 Dupes(ids))
            ELSE Passed

\* root.findall(".//w:<tag>"): the elements of that tag in the paragraphs
Elements(body, tag) ==
    Concat([i \in 1..Len(body) |->
        IF body[i].tag = "p"
        THEN SelectSeq(body[i].children, LAMBDA e : e.tag = tag)
        ELSE <<>>])

\* _validate_tracked_change_id_uniqueness
validate_tracked_change_id_uniqueness(c) ==
    LET body == read(c, DOCUMENT_XML).body
        changes == Elements(body, "ins") \o Elements(body, "del")
        ids == [i \in 1..Len(changes) |-> changes[i].id]
    IN IF Dupes(ids) # {}
       THEN ValidationError("tracked_change_id_uniqueness",
                            "Duplicate tracked change IDs", Dupes(ids))
       ELSE Passed

\* the ids on the markers of that tag
MarkerIds(body, tag) ==
    {Elements(body, tag)[i].id : i \in 1..Len(Elements(body, tag))}

\* _validate_comment_anchor_integrity
validate_comment_anchor_integrity(c) ==
    LET body == read(c, DOCUMENT_XML).body
        starts == MarkerIds(body, "commentRangeStart")
        ends == MarkerIds(body, "commentRangeEnd")
    IN IF starts # {} /\ starts # ends
       THEN ValidationError("comment_anchor_integrity", "Comment anchor mismatch",
                            (starts \ ends) \cup (ends \ starts))
       ELSE Passed

\* _validate_relationship_completeness
validate_relationship_completeness(c) ==
    IF DOCUMENT_RELS \notin Available(c) THEN Passed
    ELSE LET sect_prs == SectPrs(read(c, DOCUMENT_XML).body)
             refs == Concat([i \in 1..Len(sect_prs) |-> References(sect_prs[i])])
             rels == read(c, DOCUMENT_RELS).rels
             defined_ids == {rels[i].Id : i \in 1..Len(rels)}
             referenced_ids == {refs[i].id : i \in 1..Len(refs)}
             missing == referenced_ids \ defined_ids
         IN IF missing # {}
            THEN ValidationError("relationship_completeness",
                                 "document.xml references undefined relationships",
                                 missing)
            ELSE Passed

\* _validate_content_type_coverage
validate_content_type_coverage(c) ==
    LET ct == read(c, CONTENT_TYPES)
        default_exts == {ct.defaults[i] : i \in 1..Len(ct.defaults)}
        override_parts == {LStripChars(ct.overrides[i], {"/"}) :
                              i \in 1..Len(ct.overrides)}
    IN FirstError([i \in 1..Len(c.entries) |->
           LET part_name == c.entries[i].name
               ext == RSplitLast(part_name, ".")
           IN IF ext \notin default_exts /\ part_name \notin override_parts
              THEN ValidationError("content_type_coverage",
                                   "has no matching content type", {part_name})
              ELSE Passed])

\* the checks with the tracked-change ids looked at before the comment ids
CHECKS_changes_first ==
    <<"zip_structure", "xml_wellformedness", "section_header_footer_integrity",
      "tracked_change_id_uniqueness", "comment_id_uniqueness",
      "comment_anchor_integrity", "relationship_completeness",
      "content_type_coverage">>

\* DocumentValidator.validate: the checks, in the order they are called
CHECKS ==
    <<"zip_structure", "xml_wellformedness", "section_header_footer_integrity",
      "comment_id_uniqueness", "tracked_change_id_uniqueness",
      "comment_anchor_integrity", "relationship_completeness",
      "content_type_coverage">>

\* the check of that name, run on the archive
RunCheck(name, c) ==
    CASE name = "zip_structure" -> validate_zip_structure(c)
      [] name = "xml_wellformedness" -> validate_xml_wellformedness(c)
      [] name = "section_header_footer_integrity" ->
             validate_section_header_footer_integrity(c)
      [] name = "comment_id_uniqueness" -> validate_comment_id_uniqueness(c)
      [] name = "tracked_change_id_uniqueness" ->
             validate_tracked_change_id_uniqueness(c)
      [] name = "comment_anchor_integrity" -> validate_comment_anchor_integrity(c)
      [] name = "relationship_completeness" -> validate_relationship_completeness(c)
      [] OTHER -> validate_content_type_coverage(c)

\* validate() returned without raising
Valid == [status |-> "valid"]

(***************************************************************************)
(* The paragraph synthesizer on one paragraph: SpecPara.                   *)
(***************************************************************************)
MaxSeed == 2

Seeds == 1..MaxSeed

\* the entity timestamp of a spec whose timestamps are fixed
FixedDate == 0

Texts == TextsUpTo(MaxTextLen)

AnchorTexts == {<<"a">>, <<"b">>}

ChangeInputs ==
    {TrackedChange(INSERTION, <<"a">>, FixedDate, a) : a \in {<<>>, <<"b">>}}
    \cup {TrackedChange(INSERTION, <<" ">>, FixedDate, <<" ">>)}
    \cup {TrackedChange(DELETION, t, FixedDate, <<>>) :
        t \in {<<"a">>, <<"a", "a">>, <<"b">>}}

RepliesUpTo(n) == {[i \in 1..k |-> CommentReply(FixedDate)] : k \in 0..n}

CommentInputs ==
    {Comment(a, FixedDate, r, FALSE) : a \in AnchorTexts, r \in RepliesUpTo(MaxReplies)}

NoPara == [done |-> FALSE]

\* no archive on disk
NoFile == [kind |-> "missing"]

\* validate() has not returned
NoResult == [status |-> "none"]

ValidatorIdle ==
    /\ container = NoFile
    /\ edits = {}
    /\ vpc = "idle"
    /\ vresult = NoResult

\* DocumentSpec(): no paragraph yet, and the section __post_init__ adds
NewSpec == DocumentSpec(<<>>, <<"T">>, <<"A">>, Some(1), <<>>)

ProcessIdle ==
    /\ clock = 0
    /\ gens = <<>>
    /\ docSpec = NewSpec

InitPara ==
    /\ globalRng = SeedState(1)
    /\ paraSpec \in {Paragraph(t, <<>>, <<>>, None, None) : t \in Texts}
    /\ paraOut = NoPara
    /\ ProcessIdle
    /\ ValidatorIdle

ItemCount(p) == Len(p.tracked_changes) + Len(p.comments)

\* the caller builds the Paragraph: one more tracked change
AddChange(c) ==
    /\ ~paraOut.done
    /\ ItemCount(paraSpec) < MaxItems
    /\ paraSpec' = [paraSpec EXCEPT !.tracked_changes = Append(@, c)]
    /\ UNCHANGED <<docSpec, globalRng, clock, gens, paraOut, container, edits, vpc, vresult>>

\* the caller builds the Paragraph: one more comment
AddComment(c) ==
    /\ ~paraOut.done
    /\ ItemCount(paraSpec) < MaxItems
    /\ paraSpec' = [paraSpec EXCEPT !.comments = Append(@, c)]
    /\ UNCHANGED <<docSpec, globalRng, clock, gens, paraOut, container, edits, vpc, vresult>>

\* one paragraph of the loop of _create_document, on a fresh generator
Synthesize ==
    /\ ~paraOut.done
    /\ LET r == add_paragraph(NewGenerator(globalRng), paraSpec)
       IN /\ paraOut' = [done |-> TRUE, st |-> r.st, para |-> r.para,
                          events |-> r.events]
          /\ globalRng' = r.st.rng
    /\ UNCHANGED <<docSpec, clock, gens, paraSpec, container, edits, vpc, vresult>>

NextPara ==
    \/ \E c \in ChangeInputs : AddChange(c)
    \/ \E c \in CommentInputs : AddComment(c)
    \/ Synthesize

SpecPara == InitPara /\ [][NextPara]_vars

(***************************************************************************)
(* Paragraphs without base text: SpecFallback.                             *)
(***************************************************************************)
\* Paragraph(text="", comments=...): no base text, no comment or one
InitFallback ==
    /\ globalRng = SeedState(1)
    /\ paraSpec \in {Paragraph(<<>>, <<>>, cs, None, None) :
                        cs \in {<<>>} \cup {<<c>> : c \in CommentInputs}}
    /\ paraOut = NoPara
    /\ ProcessIdle
    /\ ValidatorIdle

\* the caller appends a tracked change to the paragraph
AppendChange(c) ==
    /\ ~paraOut.done
    /\ Len(paraSpec.tracked_changes) < MaxItems
    /\ paraSpec' = [paraSpec EXCEPT !.tracked_changes = Append(@, c)]
    /\ UNCHANGED <<docSpec, globalRng, clock, gens, paraOut, container, edits, vpc, vresult>>

NextFallback ==
    \/ \E c \in ChangeInputs : AppendChange(c)
    \/ Synthesize

SpecFallback == InitFallback /\ [][NextFallback]_vars

(***************************************************************************)
(* Generators in one process: SpecGen and SpecDet.                         *)
(***************************************************************************)
MaxGenerators == 2
MaxCalls == 3
MaxClock == 1

ParaIdle ==
    /\ paraSpec = Paragraph(<<>>, <<>>, <<>>, None, None)
    /\ paraOut = NoPara

\* a paragraph of plain text
ParaPlain == Paragraph(<<"a">>, <<>>, <<>>, None, None)

\* a paragraph with a comment that has a reply
ParaThread ==
    Paragraph(<<"a", " ", "b">>, <<>>,
              <<Comment(<<"b">>, FixedDate, <<CommentReply(FixedDate)>>, FALSE)>>,
              None, None)

\* the specs handed to the generators: with a seed or without, every entity
\* timestamp fixed
GenSpecs ==
    {DocumentSpec(ps, <<"T">>, <<"A">>, seed, <<>>) :
        ps \in {<<ParaPlain>>, <<ParaThread>>},
        seed \in {None} \cup {Some(k) : k \in Seeds}}

\* the state of the module-level generator when the process starts
InitialRng == SeedState(12345)

InitGen ==
    /\ globalRng = InitialRng
    /\ ProcessIdle
    /\ ParaIdle
    /\ ValidatorIdle

\* generate() calls made so far
RECURSIVE Calls(_)
Calls(gs) == IF gs = <<>> THEN 0 ELSE Len(Head(gs).out) + Calls(Tail(gs))

\* DocumentGenerator(spec)
Construct(spec) ==
    /\ Len(gens) < MaxGenerators
    /\ gens' = Append(gens, [g |-> DocumentGenerator(spec), out |-> <<>>])
    /\ globalRng' = seed_global(spec, globalRng)
    /\ UNCHANGED <<docSpec, clock, paraSpec, paraOut, container, edits, vpc, vresult>>

\* gens[i].generate(path_i): the members written are kept with the instance
Generate(i) ==
    /\ Calls(gens) < MaxCalls
    /\ LET r == generate(Running(gens[i].g, globalRng), clock)
       IN /\ gens' = [gens EXCEPT ![i] = [g |-> Instance(r.st),
                                          out |-> Append(@.out, r.entries)]]
          /\ globalRng' = r.st.rng
    /\ UNCHANGED <<docSpec, clock, paraSpec, paraOut, container, edits, vpc, vresult>>

\* a second of wall-clock time passes
Tick ==
    /\ clock < MaxClock
    /\ clock' = clock + 1
    /\ UNCHANGED <<docSpec, globalRng, gens, paraSpec, paraOut, container, edits, vpc, vresult>>

NextGen ==
    \/ \E spec \in GenSpecs : Construct(spec)
    \/ \E i \in 1..Len(gens) : Generate(i)
    \/ Tick

SpecGen == InitGen /\ [][NextGen]_vars

\* DocumentGenerator(spec).generate(path) in one go, as _generate_bytes of
\* tests/test_determinism.py and the CLI do; the archive lands at path
GenerateFile(spec) ==
    /\ vpc = "idle"
    /\ edits = {}
    /\ LET r == generate(Running(DocumentGenerator(spec),
                                 seed_global(spec, globalRng)), clock)
       IN /\ gens' = Append(gens, [g |-> Instance(r.st), out |-> <<r.entries>>])
          /\ globalRng' = r.st.rng
          /\ container' = Zip(r.entries)
    /\ UNCHANGED <<docSpec, clock, paraSpec, paraOut, edits, vpc, vresult>>

NextDet ==
    \/ \E spec \in GenSpecs : Len(gens) < MaxCalls /\ GenerateFile(spec)
    \/ Tick

SpecDet == InitGen /\ [][NextDet]_vars

(***************************************************************************)
(* Entities without a date, constructed while the clock runs: SpecStamp.   *)
(***************************************************************************)
\* a paragraph with an insertion and a comment thread, none of them given a
\* date, all constructed at the time `now`
ParaUndated(now) ==
    Paragraph(<<"a">>,
              <<TrackedChange(INSERTION, <<"b">>, post_init_date(None, now), <<>>)>>,
              <<Comment(<<"a">>, post_init_date(None, now),
                        <<CommentReply(post_init_date(None, now))>>, FALSE)>>,
              None, None)

\* the spec entities are constructed without dates, then the generator
ConstructUndated(seed) ==
    Construct(DocumentSpec(<<ParaUndated(clock)>>, <<"T">>, <<"A">>, seed, <<>>))

NextStamp ==
    \/ \E seed \in {None, Some(1)} : ConstructUndated(seed)
    \/ \E i \in 1..Len(gens) : Generate(i)
    \/ Tick

SpecStamp == InitGen /\ [][NextStamp]_vars

(***************************************************************************)
(* Generate, rewrite the archive, validate: SpecVal.                       *)
(***************************************************************************)
MaxEdits == 2

\* a paragraph whose text needs escaping
ParaAmp == Paragraph(<<"a", "&">>, <<>>, <<>>, None, None)

\* a paragraph with an insertion and a deletion
ParaChanged ==
    Paragraph(<<"a", " ", "b">>,
              <<TrackedChange(INSERTION, <<"a">>, FixedDate, <<>>),
                TrackedChange(DELETION, <<"b">>, FixedDate, <<>>)>>,
              <<>>, None, None)

\* two sections, the first with a default header and a first-page footer,
\* the second in landscape with a default footer
TwoSections ==
    <<SectionSpec(0, "nextPage", PORTRAIT, FALSE, None,
                  HeaderFooterSet(Some(<<"H", "&">>), None, None),
                  HeaderFooterSet(None, Some(<<"F">>), None)),
      SectionSpec(1, "nextPage", LANDSCAPE, TRUE, None,
                  HeaderFooterSet(None, None, None),
                  HeaderFooterSet(Some(<<"F">>), None, None))>>

\* a list item
ParaNumbered == Paragraph(<<"a">>, <<>>, <<>>, Some(NumberedParagraph(0, 1)), None)

\* a heading of level 1
ParaHeading == Paragraph(<<"a">>, <<>>, <<>>, None, Some(1))

\* the bodies of the documents that are generated and then validated
ValBodies ==
    {[paragraphs |-> <<ParaAmp, ParaNumbered>>, sections |-> <<>>],
     [paragraphs |-> <<ParaThread, ParaChanged>>, sections |-> <<>>],
     [paragraphs |-> <<ParaHeading, ParaThread>>, sections |-> TwoSections]}

ValSpecs ==
    {DocumentSpec(b.paragraphs, title, <<"A">>, Some(1), b.sections) :
        b \in ValBodies, title \in {<<"T">>, <<"R", "&", "D">>}}

InitVal == InitGen

\* one rewrite of the archive: what was done, and to what
Edit(op, arg) == [op |-> op, arg |-> arg]

\* the archive with the content of the member `name` replaced
WithContent(c, name, content) ==
    [c EXCEPT !.entries = [i \in 1..Len(@) |->
        IF @[i].name = name THEN Entry(name, content) ELSE @[i]]]

\* someone rewrites the archive between generate() and validate()
Rewrite(edit, rewritten) ==
    /\ vpc = "idle"
    /\ container.kind = "zip"
    /\ edit \notin edits
    /\ Cardinality(edits) < MaxEdits
    /\ container' = rewritten
    /\ edits' = edits \cup {edit}
    /\ UNCHANGED <<docSpec, globalRng, clock, gens, paraSpec, paraOut, vpc, vresult>>

\* the target every rewritten relationship is pointed at
MISSING_TARGET == <<"missing-header", ".", "xml">>

\* the relationships of word/_rels/document.xml.rels, when it can be read
DocumentRelationships(c) ==
    IF /\ c.kind = "zip"
       /\ DOCUMENT_RELS \in Available(c)
       /\ read(c, DOCUMENT_RELS).kind = "Relationships"
    THEN read(c, DOCUMENT_RELS).rels
    ELSE <<>>

\* tests/test_sections_integration.py: the Target of the i-th relationship of
\* word/_rels/document.xml.rels is rewritten to a part that does not exist
RewriteTarget(i) ==
    /\ i \in 1..Len(DocumentRelationships(container))
    /\ LET part == read(container, DOCUMENT_RELS)
       IN Rewrite(Edit("target", Str(i)),
                  WithContent(container, DOCUMENT_RELS,
                              [part EXCEPT !.rels[i].Target = MISSING_TARGET]))

\* the first paragraph of a body
FirstParagraph(body) ==
    CHOOSE i \in 1..Len(body) :
        body[i].tag = "p" /\ \A j \in 1..(i - 1) : body[j].tag # "p"

\* the document part with one more child on its first paragraph
WithChild(c, child) ==
    LET part == read(c, DOCUMENT_XML)
    IN WithContent(c, DOCUMENT_XML,
           [part EXCEPT !.body[FirstParagraph(part.body)].children = Append(@, child)])

\* the document part is there, is XML, and has a paragraph
HasParagraph(c) ==
    /\ c.kind = "zip"
    /\ DOCUMENT_XML \in Available(c)
    /\ read(c, DOCUMENT_XML).kind = "document"
    /\ \E i \in 1..Len(read(c, DOCUMENT_XML).body) :
          read(c, DOCUMENT_XML).body[i].tag = "p"

\* tests/test_validator.py, test_validator_comment_anchor_mismatch: a range
\* marker with id 99 is appended to the first paragraph
AddMarker(tag) ==
    /\ HasParagraph(container)
    /\ Rewrite(Edit("marker", <<tag>>),
               WithChild(container, [tag |-> tag, id |-> <<"9", "9">>]))

\* an insertion that reuses revision id 1 is appended to the first paragraph
AddInsertion ==
    /\ HasParagraph(container)
    /\ Rewrite(Edit("insertion", <<>>),
               WithChild(container,
                         [tag |-> "ins", id |-> <<"1">>, author |-> <<"X">>,
                          date |-> strftime(FixedDate), text |-> <<"x">>]))

\* a comment that reuses comment id 0 is appended to word/comments.xml
AddComment0 ==
    /\ container.kind = "zip"
    /\ COMMENTS_XML \in Available(container)
    /\ read(container, COMMENTS_XML).kind = "comments"
    /\ LET part == read(container, COMMENTS_XML)
       IN Rewrite(Edit("comment", <<>>),
                  WithContent(container, COMMENTS_XML,
                      [part EXCEPT !.comments =
                          Append(@, [id |-> <<"0">>, paraId |-> <<"0">>])]))

\* tests/test_validator.py, test_validator_content_type_missing: a member
\* with an extension nobody declared is added
EXTRA_PART == <<"word", "/", "extra", ".", "foo">>

AddPart ==
    /\ container.kind = "zip"
    /\ Rewrite(Edit("add", EXTRA_PART),
               [container EXCEPT !.entries = Append(@, Entry(EXTRA_PART, [kind |-> "data"]))])

\* a member is left out of the archive
RemovePart(name) ==
    /\ container.kind = "zip"
    /\ name \in Available(container)
    /\ Rewrite(Edit("remove", name),
               [container EXCEPT !.entries = SelectSeq(@, LAMBDA e : e.name # name)])

\* tests/test_validator.py, test_validator_malformed_xml: the bytes of a
\* member are replaced by bytes that are not XML
CorruptPart(name) ==
    /\ container.kind = "zip"
    /\ name \in Available(container)
    /\ Rewrite(Edit("corrupt", name),
               WithContent(container, name, [kind |-> "malformed"]))

\* the members that get removed or corrupted
Removable == {ROOT_RELS, DOCUMENT_RELS}

Corruptible == {APP_XML}

\* DocumentValidator(path).validate() is called
Validate ==
    /\ vpc = "idle"
    /\ gens # <<>>
    /\ vpc' = CHECKS[1]
    /\ UNCHANGED <<docSpec, globalRng, clock, gens, paraSpec, paraOut, container, edits, vresult>>

\* validate() runs the k-th check: it raises, or the next one is up
Check(k) ==
    /\ vpc = CHECKS[k]
    /\ LET result == RunCheck(CHECKS[k], container)
       IN IF result # Passed
          THEN vpc' = "done" /\ vresult' = result
          ELSE IF k = Len(CHECKS)
          THEN vpc' = "done" /\ vresult' = Valid
          ELSE vpc' = CHECKS[k + 1] /\ vresult' = vresult
    /\ UNCHANGED <<docSpec, globalRng, clock, gens, paraSpec, paraOut, container, edits>>

NextVal ==
    \/ \E spec \in ValSpecs : gens = <<>> /\ GenerateFile(spec)
    \/ \E i \in 1..Len(DocumentRelationships(container)) : RewriteTarget(i)
    \/ \E tag \in {"commentRangeStart", "commentRangeEnd"} : AddMarker(tag)
    \/ AddInsertion
    \/ AddComment0
    \/ AddPart
    \/ \E name \in Removable : RemovePart(name)
    \/ \E name \in Corruptible : CorruptPart(name)
    \/ Validate
    \/ \E k \in 1..Len(CHECKS) : Check(k)

SpecVal == InitVal /\ [][NextVal]_vars

(***************************************************************************)
(* Build the sections of a DocumentSpec, then generate: SpecDoc.           *)
(***************************************************************************)
MaxSections == 2

\* DocumentSpec.add_section
add_section(spec, section) ==
    [spec EXCEPT !.sections = Append(@, section)]

\* the paragraph lists the specs are constructed with: none, or three
\* paragraphs, so that a plain paragraph, a numbered one, a heading, one with
\* a comment thread and one with tracked changes each come before another
DocBodies ==
    {<<>>,
     <<ParaPlain, ParaNumbered, ParaPlain>>,
     <<ParaHeading, ParaThread, ParaPlain>>,
     <<ParaChanged, ParaPlain, ParaNumbered>>}

\* the header of tests/test_sections_integration.py
DefaultHeader == HeaderFooterSet(Some(<<"H">>), None, None)

\* the sections a caller adds, up to one paragraph past the end: all
\* defaults, or continuous landscape with pages numbered from 2, a header
\* and a first-page footer
DocSections(spec) ==
    {SectionSpec(start, "nextPage", PORTRAIT, FALSE, None,
                 HeaderFooterSet(None, None, None), HeaderFooterSet(None, None, None)) :
        start \in 0..(Len(spec.paragraphs) + 1)}
    \cup {SectionSpec(start, "continuous", LANDSCAPE, TRUE, Some(2),
                      DefaultHeader, HeaderFooterSet(None, Some(<<"F">>), None)) :
              start \in 0..(Len(spec.paragraphs) + 1)}

\* DocumentSpec(paragraphs=...): the section list is the one __post_init__
\* makes
InitDoc ==
    /\ globalRng = InitialRng
    /\ clock = 0
    /\ gens = <<>>
    /\ docSpec \in {DocumentSpec(ps, <<"T">>, <<"A">>, Some(1), <<>>) : ps \in DocBodies}
    /\ ParaIdle
    /\ ValidatorIdle

\* spec.add_section(...)
AddSection(section) ==
    /\ gens = <<>>
    /\ Len(docSpec.sections) <= MaxSections
    /\ docSpec' = add_section(docSpec, section)
    /\ UNCHANGED <<globalRng, clock, gens, paraSpec, paraOut, container, edits, vpc, vresult>>

\* spec.sections[0].headers = HeaderFooterSet(default=...)
SetHeaders ==
    /\ gens = <<>>
    /\ docSpec.sections[1].headers # DefaultHeader
    /\ docSpec' = [docSpec EXCEPT !.sections[1].headers = DefaultHeader]
    /\ UNCHANGED <<globalRng, clock, gens, paraSpec, paraOut, container, edits, vpc, vresult>>

\* DocumentGenerator(spec).generate(path)
GenerateDoc ==
    /\ gens = <<>>
    /\ GenerateFile(docSpec)

NextDoc ==
    \/ \E section \in DocSections(docSpec) : AddSection(section)
    \/ SetHeaders
    \/ GenerateDoc

SpecDoc == InitDoc /\ [][NextDoc]_vars

(***************************************************************************)
(* A spec built paragraph by paragraph, lists and headings: SpecNum.       *)
(***************************************************************************)
MaxParagraphs == 3

\* the paragraphs a caller adds: plain, a list item of the numbering
\* definition 1 or 2, a heading of level 1 or 2
NumberingInputs ==
    {ParaPlain}
    \cup {Paragraph(<<"a">>, <<>>, <<>>, Some(NumberedParagraph(level, id)), None) :
              level \in {0}, id \in {1, 2}}
    \cup {Paragraph(<<"a">>, <<>>, <<>>, None, Some(level)) : level \in {1, 2}}

\* DocumentSpec(): no paragraph yet
InitNum ==
    /\ globalRng = InitialRng
    /\ ProcessIdle
    /\ ParaIdle
    /\ ValidatorIdle

\* spec.add_paragraph(...)
AddParagraph(para) ==
    /\ gens = <<>>
    /\ Len(docSpec.paragraphs) < MaxParagraphs
    /\ docSpec' = [docSpec EXCEPT !.paragraphs = Append(@, para)]
    /\ UNCHANGED <<globalRng, clock, gens, paraSpec, paraOut, container, edits, vpc, vresult>>

NextNum ==
    \/ \E para \in NumberingInputs : AddParagraph(para)
    \/ GenerateDoc

SpecNum == InitNum /\ [][NextNum]_vars

(***************************************************************************)
(* Properties of the generators.                                           *)
(***************************************************************************)
\* C1: two generate() calls on equal specs with a seed and fixed entity
\* timestamps write archives whose members are the same, byte for byte,
\* whatever the wall clock reads at each call.
C1_Determinism ==
    \A i, j \in 1..Len(gens) :
        (gens[i].g.spec = gens[j].g.spec /\ gens[i].g.spec.seed # None)
        => gens[i].out[1] = gens[j].out[1]

\* the hexadecimal identifiers of one member of an archive
HexIdsOf(content) ==
    CASE content.kind = "document" ->
             [i \in 1..Len(content.body) |->
                 IF content.body[i].tag = "p" THEN content.body[i].paraId ELSE <<>>]
      [] content.kind \in {"footnotes", "endnotes"} ->
             [i \in 1..Len(content.notes) |-> content.notes[i].paraId]
      [] content.kind = "commentsIds" ->
             Concat([i \in 1..Len(content.entries) |->
                        <<content.entries[i].paraId, content.entries[i].durableId>>])
      [] OTHER -> <<>>

\* the paragraph ids, comment paragraph ids and durable ids of an archive
HexIds(entries) == [i \in 1..Len(entries) |-> HexIdsOf(entries[i].content)]

RECURSIVE AloneFrom(_, _)
\* what the k-th generate() of an instance writes when nothing else runs
AloneFrom(st, k) ==
    IF k = 1 THEN generate(st, 0).entries
    ELSE AloneFrom(generate(st, 0).st, k - 1)

\* what the k-th generate() of a generator of the spec writes in a process
\* that constructs and runs that generator only
Alone(spec, k) ==
    AloneFrom(Running(DocumentGenerator(spec), seed_global(spec, InitialRng)), k)

\* C2: under every interleaving of the constructions and generate() calls
\* of generators with seeds, the hexadecimal identifiers in each
\* generator's output are the ones it produces constructed and run alone.
C2_NoInterference ==
    \A i \in 1..Len(gens) :
        gens[i].g.spec.seed # None =>
            \A k \in 1..Len(gens[i].out) :
                HexIds(gens[i].out[k]) = HexIds(Alone(gens[i].g.spec, k))

\* C3: a generate() call for a spec without a seed leaves the module-level
\* generator as it was: the next value drawn from it after the call is the
\* value that would have been drawn without the call.
C3_UnseededLeavesGlobalState ==
    [][\A i \in 1..Len(gens) :
           (gens[i].g.spec.seed = None /\ Generate(i))
           => RngPick(RngStep(globalRng')) = RngPick(RngStep(globalRng))]_vars

(***************************************************************************)
(* Properties of the validator.                                            *)
(***************************************************************************)
\* C4: the archive generate() writes for a spec, whatever its title, author,
\* paragraphs and sections, passes the eight checks of validate().
C4_GeneratedValidates ==
    (vpc = "done" /\ edits = {}) => vresult = Valid

\* the ids on the range markers of the document part
RangeIds(c, tag) == MarkerIds(read(c, DOCUMENT_XML).body, tag)

\* the container breaks the rule the check of that name is there for
Violates(name, c) ==
    IF name = "comment_anchor_integrity"
    THEN RangeIds(c, "commentRangeStart") # RangeIds(c, "commentRangeEnd")
    ELSE RunCheck(name, c) # Passed

\* the checks, by their place in the order, whose rule the container breaks
ViolatedChecks(c) == {k \in 1..Len(CHECKS) : Violates(CHECKS[k], c)}

\* C8: the checks run in the order archive, well-formedness, section
\* references, comment ids, tracked-change ids, comment ranges,
\* relationships, content types; for a container that violates several of
\* them the failure signalled is that of the earliest violated check.
C8_FailFastOrdering ==
    (/\ vpc = "done"
     /\ container.kind = "zip"
     /\ Cardinality(ViolatedChecks(container)) >= 2)
    => /\ vresult.status # "valid"
       /\ vresult.check =
              CHECKS[CHOOSE k \in ViolatedChecks(container) :
                         \A other \in ViolatedChecks(container) : k <= other]

RECURSIVE ValidateFrom(_, _)
\* validate() on an archive, from the k-th check on: what it signals
ValidateFrom(c, k) ==
    IF k > Len(CHECKS) THEN Valid
    ELSE IF RunCheck(CHECKS[k], c) # Passed THEN RunCheck(CHECKS[k], c)
    ELSE ValidateFrom(c, k + 1)

\* the archive as generate() wrote it, before anything was rewritten
Generated == Zip(gens[1].out[1])

\* only the target of the i-th document relationship was rewritten in a
\* generated archive that was valid, and validate() has returned
TargetRewritten(i) ==
    /\ vpc = "done"
    /\ edits = {Edit("target", Str(i))}
    /\ ValidateFrom(Generated, 1) = Valid

\* C9: when the target of one document relationship of a valid generated
\* container is rewritten to a path the container does not hold, validate()
\* fails with a validation error that names the missing target.
C9_BrokenTargetRejected ==
    \A i \in 1..Len(DocumentRelationships(container)) :
        TargetRewritten(i)
        => /\ vresult.status = "ValidationError"
           /\ WordPart(MISSING_TARGET) \in vresult.names

\* the i-th document relationship is the one a header or footer reference
\* of a section-properties block of the document points at
SectionRelationship(c, i) ==
    LET sect_prs == SectPrs(read(c, DOCUMENT_XML).body)
    IN \E k \in 1..Len(sect_prs) :
           \E r \in 1..Len(References(sect_prs[k])) :
               References(sect_prs[k])[r].id = DocumentRelationships(c)[i].Id

\* C9, amended: when the target of a header or footer relationship that a
\* section-properties block of a valid generated container refers to is
\* rewritten to a path the container does not hold, validate() fails on the
\* section reference check with a validation error that names the missing
\* target.
C9_BrokenSectionTargetRejected ==
    \A i \in 1..Len(DocumentRelationships(container)) :
        (TargetRewritten(i) /\ SectionRelationship(container, i))
        => /\ vresult.status = "ValidationError"
           /\ vresult.check = "section_header_footer_integrity"
           /\ WordPart(MISSING_TARGET) \in vresult.names

\* the target of a footer relationship that a section refers to was
\* rewritten in a valid archive, and validate() has returned
C9_Witness ==
    \E i \in 1..Len(DocumentRelationships(container)) :
        /\ TargetRewritten(i)
        /\ SectionRelationship(container, i)
        /\ EndsWith(DocumentRelationships(container)[i].Type, <<"/", "footer">>)

RECURSIVE PassesUpTo(_, _)
\* the first k checks raise nothing on the archive
PassesUpTo(c, k) ==
    \/ k = 0
    \/ PassesUpTo(c, k - 1) /\ RunCheck(CHECKS[k], c) = Passed

\* C10: validate() fails on the comment range check whenever the ids on the
\* range-start markers of the document part are not the ids on its
\* range-end markers, also when a range-end id has no range-start and the
\* document has no range-start at all.
C10_UnbalancedRangeRejected ==
    (/\ vpc = "done"
     /\ PassesUpTo(container, 5)
     /\ RangeIds(container, "commentRangeStart") # RangeIds(container, "commentRangeEnd"))
    => /\ vresult.status = "ValidationError"
       /\ vresult.check = "comment_anchor_integrity"

\* C11: validate() has exactly two outcomes for every readable archive,
\* also one without word/_rels/document.xml.rels: it returns, or it raises
\* the validator's own ValidationError; it never ends with another error.
C11_TwoOutcomes ==
    vpc = "done" => vresult.status \in {"valid", "ValidationError"}

\* the ids that two comment elements of word/comments.xml share
SharedCommentIds(c) ==
    LET comments == read(c, COMMENTS_XML).comments
    IN {comments[i].id : i \in {k \in 1..Len(comments) :
                                   \E j \in 1..(k - 1) : comments[j].id = comments[k].id}}

\* the archive has a comment part that holds two comments of one id
HasSharedCommentId(c) ==
    /\ c.kind = "zip"
    /\ COMMENTS_XML \in Available(c)
    /\ read(c, COMMENTS_XML).kind = "comments"
    /\ SharedCommentIds(c) # {}

\* C12: for a container that passes the archive, well-formedness and
\* section reference checks and whose comment part holds two comments with
\* the same id, validate() fails on the comment id check, before the
\* tracked-change, range, relationship and content-type checks, with an
\* error that names the duplicated id.
C12_DuplicateCommentRejected ==
    (/\ vpc = "done"
     /\ HasSharedCommentId(container)
     /\ PassesUpTo(container, 3))
    => /\ vresult.status = "ValidationError"
       /\ vresult.check = "comment_id_uniqueness"
       /\ SharedCommentIds(container) \subseteq vresult.names

\* validate() has returned on an archive that passes the first three
\* checks, holds two comments of one id and two tracked changes of one id
C12_Witness ==
    /\ vpc = "done"
    /\ HasSharedCommentId(container)
    /\ PassesUpTo(container, 3)
    /\ RunCheck("tracked_change_id_uniqueness", container) # Passed

(***************************************************************************)
(* Properties of the assembler.                                            *)
(***************************************************************************)
\* generate() has written the archive of docSpec
DocGenerated == gens # <<>> /\ container.kind = "zip"

\* the children of <w:body> in the archive
WrittenBody == read(container, DOCUMENT_XML).body

\* the section layout of the generator that wrote the archive
WrittenLayout == gens[1].g.section_layout

\* the section-properties blocks inside the <w:pPr> elements of a paragraph
ParagraphSectPrs(p) ==
    Concat([k \in 1..Len(p.children) |->
               IF p.children[k].tag = "pPr"
               THEN SelectSeq(p.children[k].children, LAMBDA e : e.tag = "sectPr")
               ELSE <<>>])

\* the <w:type> children of a block
BreakTypes(block) == SelectSeq(block.children, LAMBDA e : e.tag = "type")

\* the page size of the block is that of the orientation of the section,
\* and the block restarts the page numbers when the section does
Describes(block, section) ==
    /\ \E i \in 1..Len(block.children) :
          /\ block.children[i].tag = "pgSz"
          /\ block.children[i].orient =
                 (IF section.orientation = LANDSCAPE THEN Some("landscape") ELSE None)
    /\ (\E i \in 1..Len(block.children) : block.children[i].tag = "pgNumType")
          <=> (section.restart_page_numbering \/ section.page_number_start # None)

\* C13: for a spec with P >= 1 paragraphs whose normalized section list has
\* k sections, the body holds k section-properties blocks: the i-th, for
\* i < k, is the only block of paragraph start(i+1)-1, describes section i
\* and carries its break type; the last is the final child of the body,
\* describes the last section and carries no break type.
C13_SectionBoundaries ==
    (DocGenerated /\ Len(docSpec.paragraphs) >= 1)
    => LET body == WrittenBody
           layout == WrittenLayout
           P == Len(docSpec.paragraphs)
           k == Len(layout)
           blocks == SectPrs(body)
       IN /\ Len(body) = P + 1
          /\ \A j \in 1..P : body[j].tag = "p"
          /\ Len(blocks) = k
          /\ \A i \in 1..(k - 1) :
                /\ ParagraphSectPrs(body[layout[i + 1].start_paragraph]) = <<blocks[i]>>
                /\ Describes(blocks[i], layout[i])
                /\ BreakTypes(blocks[i]) = <<[tag |-> "type", val |-> layout[i].break_type]>>
          /\ body[P + 1] = blocks[k]
          /\ Describes(blocks[k], layout[k])
          /\ BreakTypes(blocks[k]) = <<>>

\* an archive of three sections that differ in orientation: a portrait
\* section, a landscape one, and a portrait one again
C13_Witness ==
    /\ DocGenerated
    /\ Len(docSpec.paragraphs) >= 1
    /\ Len(WrittenLayout) = 3
    /\ WrittenLayout[2].orientation = LANDSCAPE
    /\ WrittenLayout[3].orientation = PORTRAIT

\* the paragraphs of the written body that carry a section-properties block
BoundaryParagraphs ==
    {j \in 1..Len(WrittenBody) :
        WrittenBody[j].tag = "p" /\ ParagraphSectPrs(WrittenBody[j]) # <<>>}

\* C14: in every paragraph that carries a paragraph-level section-properties
\* block, the <w:pPr> that holds it is the first child of the paragraph,
\* whatever the kind of the paragraph.
C14_PPrFirstChild ==
    DocGenerated
    => \A j \in BoundaryParagraphs :
           /\ WrittenBody[j].children[1].tag = "pPr"
           /\ \E k \in 1..Len(WrittenBody[j].children[1].children) :
                 WrittenBody[j].children[1].children[k].tag = "sectPr"

\* C15: the normalized section list of every spec is non-empty, strictly
\* increasing by start, starts at 0 and, when the spec has paragraphs, holds
\* only starts below the paragraph count.
C15_NormalizedSections ==
    LET layout == normalize_sections(docSpec)
        paragraph_count == Len(docSpec.paragraphs)
    IN /\ layout # <<>>
       /\ \A i \in 1..(Len(layout) - 1) :
             layout[i].start_paragraph < layout[i + 1].start_paragraph
       /\ layout[1].start_paragraph = 0
       /\ paragraph_count > 0
             => \A i \in 1..Len(layout) : layout[i].start_paragraph < paragraph_count

\* a spec with paragraphs whose sections are out of order, repeat a start
\* and reach past the last paragraph
C15_Witness ==
    LET sections == docSpec.sections
    IN /\ Len(docSpec.paragraphs) > 0
       /\ \E i, j \in 1..Len(sections) :
             i < j /\ sections[i].start_paragraph > sections[j].start_paragraph
       /\ \E i, j \in 1..Len(sections) :
             i < j /\ sections[i].start_paragraph = sections[j].start_paragraph
       /\ \E i \in 1..Len(sections) :
             sections[i].start_paragraph >= Len(docSpec.paragraphs)

\* the targets of the document relationships in the order the claim gives
ExpectedTargets ==
    LET paragraphs == docSpec.paragraphs
        manifest == ManifestFrom(WrittenLayout, 0, <<>>)
    IN (IF \E i \in 1..Len(paragraphs) : paragraphs[i].comments # <<>>
        THEN <<XmlName("comments"), XmlName("commentsExtended"), XmlName("commentsIds")>>
        ELSE <<>>)
       \o (IF \E i \in 1..Len(paragraphs) :
                 paragraphs[i].numbering # None \/ paragraphs[i].heading_level # None
           THEN <<XmlName("numbering"), XmlName("styles")>>
           ELSE <<>>)
       \o [i \in 1..Len(manifest) |-> manifest[i].target]
       \o <<XmlName("settings"), XmlName("webSettings"), XmlName("footnotes"),
            XmlName("endnotes"), XmlName("fontTable"), THEME_TARGET>>

\* C16: the document relationships are numbered rId1..rIdK in the order
\* they are listed: the three comment relationships when there are
\* comments, numbering and styles when needed, one per header/footer
\* manifest entry in manifest order, then settings, web settings,
\* footnotes, endnotes, font table and theme.
C16_RelationshipIds ==
    DocGenerated
    => LET rels == read(container, DOCUMENT_RELS).rels
       IN /\ Len(rels) = Len(ExpectedTargets)
          /\ \A i \in 1..Len(rels) :
                /\ rels[i].Id = <<"rId">> \o Str(i)
                /\ rels[i].Target = ExpectedTargets[i]

\* an archive with comment, numbering and at least two header/footer
\* relationships
C16_Witness ==
    /\ DocGenerated
    /\ Len(ExpectedTargets) >= 6 + 3 + 2 + 2

\* the members of the archive that are parts with a content type of their
\* own: all but the registry and the relationship parts
WrittenParts ==
    {name \in Available(container) :
        name # CONTENT_TYPES /\ ~EndsWith(name, <<".", "rels">>)}

\* C17: the part names with an override in [Content_Types].xml are the
\* names of the non-relationship parts written into the archive.
C17_OverridesMatchParts ==
    DocGenerated
    => LET overrides == read(container, CONTENT_TYPES).overrides
       IN {overrides[i] : i \in 1..Len(overrides)}
              = {<<"/">> \o name : name \in WrittenParts}

\* an archive with header/footer parts, comment parts and numbering parts
C17_Witness ==
    /\ DocGenerated
    /\ COMMENTS_XML \in WrittenParts
    /\ WordPart(XmlName("numbering")) \in WrittenParts
    /\ \E name \in WrittenParts : name[3] = "header"
    /\ \E name \in WrittenParts : name[3] = "footer"

\* C20: the paragraph-level section-properties block is the first child of
\* the <w:pPr> of its paragraph, also when the <w:pPr> holds a style
\* reference or numbering properties.
C20_SectPrFirstInPPr ==
    DocGenerated
    => \A j \in BoundaryParagraphs :
           \A k \in 1..Len(WrittenBody[j].children) :
               WrittenBody[j].children[k].tag = "pPr"
               => WrittenBody[j].children[k].children[1].tag = "sectPr"

\* C20, amended: the paragraph-level section-properties block is the last
\* child of the <w:pPr> of its paragraph, after the style reference and the
\* numbering properties when the <w:pPr> holds them.
C20_SectPrLastInPPr ==
    DocGenerated
    => \A j \in BoundaryParagraphs :
           \A k \in 1..Len(WrittenBody[j].children) :
               WrittenBody[j].children[k].tag = "pPr"
               => LET held == WrittenBody[j].children[k].children
                  IN /\ held[Len(held)].tag = "sectPr"
                     /\ \A n \in 1..(Len(held) - 1) : held[n].tag # "sectPr"

\* a numbered paragraph ends a section
C20_Witness ==
    /\ DocGenerated
    /\ \E j \in BoundaryParagraphs :
          \E k \in 1..Len(WrittenBody[j].children) :
              /\ WrittenBody[j].children[k].tag = "pPr"
              /\ \E n \in 1..Len(WrittenBody[j].children[k].children) :
                    WrittenBody[j].children[k].children[n].tag = "numPr"

\* the ids of the comments in the comment part among the members written
CommentIdsOf(entries) ==
    IF COMMENTS_XML \in Available(Zip(entries))
    THEN [i \in 1..Len(read(Zip(entries), COMMENTS_XML).comments) |->
             read(Zip(entries), COMMENTS_XML).comments[i].id]
    ELSE <<>>

\* the tracked-change elements of the document part among the members
TrackedChangesOf(entries) ==
    Elements(read(Zip(entries), DOCUMENT_XML).body, "ins")
    \o Elements(read(Zip(entries), DOCUMENT_XML).body, "del")

\* C18: generate() called again on the same DocumentGenerator writes the
\* comment part and the revision ids it wrote the first time: the records
\* and the counters of the first call are not carried into the second.
C18_NothingCarriedOver ==
    \A i \in 1..Len(gens) :
        \A k \in 2..Len(gens[i].out) :
            /\ CommentIdsOf(gens[i].out[k]) = CommentIdsOf(gens[i].out[1])
            /\ [n \in 1..Len(TrackedChangesOf(gens[i].out[k])) |->
                    TrackedChangesOf(gens[i].out[k])[n].id]
               = [n \in 1..Len(TrackedChangesOf(gens[i].out[1])) |->
                    TrackedChangesOf(gens[i].out[1])[n].id]

\* the archives written so far, each as the sequence of its members
WrittenArchives ==
    UNION {{gens[i].out[k] : k \in 1..Len(gens[i].out)} : i \in 1..Len(gens)}

\* the dates on the tracked changes of the archives written so far
WrittenDates ==
    UNION {{TrackedChangesOf(a)[n].date : n \in 1..Len(TrackedChangesOf(a))} :
              a \in WrittenArchives}

\* C19: when the tracked changes, comments and replies of the specs are
\* given no timestamp, the archives carry one fixed reference timestamp,
\* the same whenever the entities are constructed and the documents
\* generated.
C19_OneReferenceTimestamp == Cardinality(WrittenDates) <= 1

\* the break types on the blocks of the paragraph that comes right before
\* the start of the i-th section of the written layout
BreakBefore(i) ==
    LET blocks == ParagraphSectPrs(WrittenBody[WrittenLayout[i].start_paragraph])
    IN [n \in 1..Len(blocks) |->
           [m \in 1..Len(BreakTypes(blocks[n])) |-> BreakTypes(blocks[n])[m].val]]

\* C21: for each non-initial section S of the normalized layout, the
\* paragraph-level block at the paragraph right before the start of S
\* carries the break type S declares.
C21_OwnBreakType ==
    (DocGenerated /\ Len(docSpec.paragraphs) >= 1)
    => \A i \in 2..Len(WrittenLayout) :
           BreakBefore(i) = << <<WrittenLayout[i].break_type>> >>

\* C21, amended: for each non-initial section S of the normalized layout,
\* the paragraph-level block at the paragraph right before the start of S
\* carries the break type declared by the section that ends there, the one
\* before S in the layout.
C21_EndingSectionBreakType ==
    (DocGenerated /\ Len(docSpec.paragraphs) >= 1)
    => \A i \in 2..Len(WrittenLayout) :
           BreakBefore(i) = << <<WrittenLayout[i - 1].break_type>> >>

\* an archive whose second section declares another break type than its
\* first
C21_Witness ==
    /\ DocGenerated
    /\ Len(docSpec.paragraphs) >= 1
    /\ Len(WrittenLayout) >= 2
    /\ WrittenLayout[1].break_type # WrittenLayout[2].break_type

\* the header/footer manifest entries of the i-th section of the written
\* layout, in manifest order
EntriesOf(i) ==
    SelectSeq(ManifestFrom(WrittenLayout, 0, <<>>), LAMBDA e : e.section_index = i - 1)

\* the header and footer references of a block, in the order they stand
ReferencesIn(block) ==
    SelectSeq(block.children, LAMBDA e : e.tag \in {"headerReference", "footerReference"})

\* the reference points at the part of the manifest entry: it is of the
\* kind and the variant of the entry, and its id is the id of a document
\* relationship of that kind whose target is the part of the entry
RefersTo(ref, entry) ==
    /\ ref.tag = (IF entry.kind = "header" THEN "headerReference" ELSE "footerReference")
    /\ ref.type = entry.variant
    /\ \E n \in 1..Len(DocumentRelationships(container)) :
          /\ DocumentRelationships(container)[n].Id = ref.id
          /\ DocumentRelationships(container)[n].Target = entry.target
          /\ EndsWith(DocumentRelationships(container)[n].Type, <<"/", entry.kind>>)

\* the start attribute of the <w:pgNumType> children of a block
PageNumberStarts(block) ==
    LET found == SelectSeq(block.children, LAMBDA e : e.tag = "pgNumType")
    IN [n \in 1..Len(found) |-> found[n].start]

\* the i-th section-properties block in document order carries the
\* orientation and the page-number start of the i-th normalized section and
\* one header/footer reference for each manifest entry of that section, of
\* the entry's variant and with the id of the relationship that targets the
\* entry's part, and no other reference
Wired(i) ==
    LET block == SectPrs(WrittenBody)[i]
        section == WrittenLayout[i]
        refs == ReferencesIn(block)
    IN /\ Describes(block, section)
       /\ PageNumberStarts(block) =
              (IF section.page_number_start # None
               THEN <<Str(Val(section.page_number_start))>>
               ELSE IF section.restart_page_numbering THEN << <<"1">> >>
               ELSE <<>>)
       /\ Len(refs) = Len(EntriesOf(i))
       /\ \A n \in 1..Len(EntriesOf(i)) :
             Cardinality({m \in 1..Len(refs) : RefersTo(refs[m], EntriesOf(i)[n])}) = 1

\* C22: the relationship ids of the manifest entries are filled in before
\* the body is written, so that in every generated document there is a
\* section-properties block for each normalized section and the i-th block
\* in document order describes the i-th section and carries its header and
\* footer references, and no other.
C22_SectionWiring ==
    DocGenerated
    => /\ Len(SectPrs(WrittenBody)) = Len(WrittenLayout)
       /\ \A i \in 1..Len(WrittenLayout) : Wired(i)

\* C22, amended: the same, for every generated document whose spec has at
\* least one paragraph.
C22_SectionWiringOfParagraphs ==
    (DocGenerated /\ Len(docSpec.paragraphs) >= 1)
    => /\ Len(SectPrs(WrittenBody)) = Len(WrittenLayout)
       /\ \A i \in 1..Len(WrittenLayout) : Wired(i)

\* an archive of two sections with header/footer parts of their own, the
\* second with more parts than the first and pages numbered from 2
C22_Witness ==
    /\ DocGenerated
    /\ Len(docSpec.paragraphs) >= 1
    /\ Len(WrittenLayout) >= 2
    /\ EntriesOf(1) # <<>>
    /\ Len(EntriesOf(2)) > Len(EntriesOf(1))
    /\ WrittenLayout[2].page_number_start = Some(2)

(***************************************************************************)
(* Properties of the synthesizer.                                          *)
(***************************************************************************)
\* the texts of the <w:r><w:t> runs among the children, concatenated
RunText(children) ==
    Concat([i \in 1..Len(children) |->
               IF children[i].tag = "r" THEN children[i].text ELSE <<>>])

CommentsOnly(p) == p.comments # <<>> /\ p.tracked_changes = <<>>

\* C5: a paragraph with non-empty text, one or more comments and no tracked
\* changes is emitted as runs whose texts, concatenated in emission order
\* (markers and reference runs ignored), are the paragraph's text, whether
\* or not the anchors occur in it.
C5_AnchorRoundTrip ==
    (paraOut.done /\ paraSpec.text # <<>> /\ CommentsOnly(paraSpec))
    => RunText(paraOut.para.children) = paraSpec.text

\* a comment whose anchor does not occur in the text went through the
\* comments-only path
C5_Witness ==
    /\ paraOut.done
    /\ paraSpec.text # <<>>
    /\ CommentsOnly(paraSpec)
    /\ \E i \in 1..Len(paraSpec.comments) :
          ~Contains(paraSpec.text, paraSpec.comments[i].anchor_text)

\* the tie-break order at equal offsets
TieBreak == [comment_start |-> 0, ins |-> 1, del |-> 2, comment_end |-> 3]

\* the position among the children of the element with this tag and id
ElementIndex(children, tag, id) ==
    CHOOSE i \in 1..Len(children) :
        /\ children[i].tag = tag
        /\ children[i].id = id

\* how many tracked-change events the first j events hold: the revision id
\* of the j-th event when it is one
TcOrdinal(events, j) ==
    Cardinality({i \in 1..j : events[i].kind \in {"ins", "del"}})

\* C6: the merged event sequence is in ascending offset; at equal offsets a
\* comment range start precedes an insertion, an insertion a deletion, and
\* a deletion a comment range end; an insertion at a comment's start
\* offset is emitted after that comment's range start.
C6_OverlapOrdering ==
    paraOut.done =>
        LET ev == paraOut.events
            ch == paraOut.para.children
        IN /\ \A i, j \in 1..Len(ev) :
                  i < j =>
                      /\ ev[i].pos <= ev[j].pos
                      /\ ev[i].pos = ev[j].pos
                            => TieBreak[ev[i].kind] <= TieBreak[ev[j].kind]
           /\ \A i, j \in 1..Len(ev) :
                  (/\ ev[i].kind = "comment_start"
                   /\ ev[j].kind = "ins"
                   /\ ev[i].pos = ev[j].pos)
                  => ElementIndex(ch, "commentRangeStart", ev[i].payload.comment_id)
                     < ElementIndex(ch, "ins", Str(TcOrdinal(ev, j)))

\* an insertion sits at the start offset, inside the text, of a comment
\* whose anchor was found
C6_Witness ==
    /\ paraOut.done
    /\ \E i, j \in 1..Len(paraOut.events) :
          /\ paraOut.events[i].kind = "comment_start"
          /\ paraOut.events[j].kind = "ins"
          /\ paraOut.events[i].pos = paraOut.events[j].pos
          /\ paraOut.events[i].pos > 0

RECURSIVE ThreadStart(_, _)
\* the number of records the comments before the k-th produce
ThreadStart(comments, k) ==
    IF k = 1 THEN 0
    ELSE ThreadStart(comments, k - 1) + 1 + Len(comments[k - 1].replies)

\* C7: a comment with N replies produces N+1 records; exactly one, the
\* parent, has its durable id equal to its paragraph id and no parent link;
\* exactly N have a parent link, the parent's paragraph id, and a durable
\* id drawn apart from their paragraph id.
C7_ThreadingInvariants ==
    paraOut.done =>
        LET meta == paraOut.st.comment_metadata
            cs == paraSpec.comments
        IN /\ Len(meta) = ThreadStart(cs, Len(cs) + 1)
           /\ \A k \in 1..Len(cs) :
                LET n == Len(cs[k].replies)
                    block == [i \in 1..(n + 1) |-> meta[ThreadStart(cs, k) + i]]
                IN /\ block[1].durable_id = block[1].para_id
                   /\ block[1].parent_para_id = None
                   /\ Cardinality({i \in 1..(n + 1) :
                          /\ block[i].durable_id = block[i].para_id
                          /\ block[i].parent_para_id = None}) = 1
                   /\ Cardinality({i \in 1..(n + 1) :
                          block[i].parent_para_id # None}) = n
                   /\ \A i \in 2..(n + 1) :
                          /\ block[i].parent_para_id = block[1].para_id
                          /\ block[i].durable_id # block[i].para_id

\* the second of two comments of a paragraph has a reply
C7_Witness ==
    /\ paraOut.done
    /\ Len(paraSpec.comments) = 2
    /\ paraSpec.comments[2].replies # <<>>
    /\ Len(paraOut.st.comment_metadata) >= 3

\* C23: on every paragraph path, a text or deleted-text element that was
\* emitted is flagged for space preservation exactly when its text differs
\* from its trimmed form.
C23_SpacePreservation ==
    paraOut.done
    => \A i \in 1..Len(paraOut.para.children) :
           LET e == paraOut.para.children[i]
           IN (e.tag \in {"r", "ins", "del"} /\ "text" \in DOMAIN e)
              => (e.space <=> e.text # Strip(e.text))

\* the tracked-change elements among the children, each as its kind and text
EmittedChanges(children) ==
    LET found == SelectSeq(children, LAMBDA e : e.tag \in {"ins", "del"})
    IN [i \in 1..Len(found) |-> <<found[i].tag, found[i].text>>]

\* the tracked changes of a paragraph as declared, each as its kind and text
DeclaredChanges(para_spec) ==
    [i \in 1..Len(para_spec.tracked_changes) |->
        <<IF para_spec.tracked_changes[i].change_type = INSERTION THEN "ins" ELSE "del",
          para_spec.tracked_changes[i].text>>]

\* C24: for a paragraph with no base text and with tracked changes, with or
\* without comments, the tracked changes are emitted in the order they are
\* declared, whatever their kinds, and no plain-text run is emitted.
C24_EmptyTextFallback ==
    (paraOut.done /\ paraSpec.text = <<>> /\ paraSpec.tracked_changes # <<>>)
    => /\ EmittedChanges(paraOut.para.children) = DeclaredChanges(paraSpec)
       /\ \A i \in 1..Len(paraOut.para.children) :
             ~(paraOut.para.children[i].tag = "r"
               /\ "text" \in DOMAIN paraOut.para.children[i])

\* the offsets at which sub occurs in text
Occurrences(text, sub) ==
    {i \in 0..(Len(text) - Len(sub)) : SubSeq(text, i + 1, i + Len(sub)) = sub}

\* where the base text is cut by an insertion: right after the first
\* occurrence of its anchor, or at the end of the text
InsertionPoint(text, change) ==
    IF change.insert_after # <<>> /\ Occurrences(text, change.insert_after) # {}
    THEN (CHOOSE i \in Occurrences(text, change.insert_after) :
              \A j \in Occurrences(text, change.insert_after) : i <= j)
         + Len(change.insert_after)
    ELSE Len(text)

SingleInsertion(p) ==
    /\ p.text # <<>>
    /\ Len(p.tracked_changes) = 1
    /\ p.tracked_changes[1].change_type = INSERTION

\* C25: for a paragraph with non-empty base text and a single insertion, the
\* plain text emitted before the insertion is the text up to the end of the
\* first occurrence of the anchor and the plain text emitted after it is the
\* rest; when the anchor is absent or does not occur, the whole text comes
\* before the insertion and nothing after; the paragraph is always produced.
C25_InsertionPlacement ==
    (paraOut.done /\ SingleInsertion(paraSpec))
    => LET children == paraOut.para.children
           cut == InsertionPoint(paraSpec.text, paraSpec.tracked_changes[1])
       IN \E k \in 1..Len(children) :
             /\ children[k].tag = "ins"
             /\ children[k].text = paraSpec.tracked_changes[1].text
             /\ \A j \in 1..Len(children) : children[j].tag = "ins" => j = k
             /\ RunText(SubSeq(children, 1, k - 1)) = SubSeq(paraSpec.text, 1, cut)
             /\ RunText(SubSeq(children, k + 1, Len(children)))
                   = SubSeq(paraSpec.text, cut + 1, Len(paraSpec.text))

\* an insertion whose anchor occurs twice in the text was placed after the
\* first occurrence, with text on both sides
C25_Witness ==
    /\ paraOut.done
    /\ SingleInsertion(paraSpec)
    /\ paraSpec.comments = <<>>
    /\ Cardinality(Occurrences(paraSpec.text, paraSpec.tracked_changes[1].insert_after)) >= 2
    /\ InsertionPoint(paraSpec.text, paraSpec.tracked_changes[1]) < Len(paraSpec.text)

\* the plain-text runs and the deletions found in the base text, concatenated
\* in emission order
ConsumedText(children, base_text) ==
    Concat([i \in 1..Len(children) |->
               IF children[i].tag = "r" THEN children[i].text
               ELSE IF children[i].tag = "del" /\ Contains(base_text, children[i].text)
                    THEN children[i].text
                    ELSE <<>>])

\* C26: for a paragraph with non-empty base text and any list of tracked
\* changes, deletions with equal or overlapping texts included, the walk
\* consumes every character of the base text exactly once: the plain-text
\* runs and the texts of the deletions found in the base text, concatenated
\* in emission order, are the base text.
C26_ConsumedExactlyOnce ==
    (paraOut.done /\ paraSpec.text # <<>> /\ paraSpec.tracked_changes # <<>>)
    => ConsumedText(paraOut.para.children, paraSpec.text) = paraSpec.text

\* for each record a paragraph's comments call for, how far back the record
\* of its comment lies: 0 for a comment, j for its j-th reply
ThreadShape(comments) ==
    Concat([i \in 1..Len(comments) |->
               <<0>> \o [j \in 1..Len(comments[i].replies) |-> j]])

\* the same for the paragraphs of a spec, in document order
RecordShape(spec) ==
    Concat([p \in 1..Len(spec.paragraphs) |-> ThreadShape(spec.paragraphs[p].comments)])

\* the entries of commentsExtended.xml among the members written
CommentThreadsOf(entries) ==
    IF WordPart(XmlName("commentsExtended")) \in Available(Zip(entries))
    THEN read(Zip(entries), WordPart(XmlName("commentsExtended"))).entries
    ELSE <<>>

\* the records of one written archive are those its spec calls for: the
\* i-th has id i, counted from 0 over comments and replies alike, and every
\* reply's record follows its comment's at the distance of its rank
RecordsInOrder(spec, entries) ==
    LET shape == RecordShape(spec)
        threads == CommentThreadsOf(entries)
    IN /\ CommentIdsOf(entries) = [n \in 1..Len(shape) |-> Str(n - 1)]
       /\ Len(threads) = Len(shape)
       /\ \A n \in 1..Len(shape) :
              threads[n].paraIdParent
                = IF shape[n] = 0 THEN None ELSE threads[n - shape[n]].paraId

\* C27: within one generation the i-th comment record has id i, the counter
\* starting at 0 and shared by comments and replies across paragraphs; a
\* comment's record is followed by those of its replies in declaration
\* order, and the paragraphs contribute in document order.
C27_CommentRecordOrder ==
    \A i \in 1..Len(gens) :
        \A k \in 1..Len(gens[i].out) :
            RecordsInOrder(gens[i].g.spec, gens[i].out[k])

\* the <w:ins> and <w:del> elements of the document part among the members,
\* in the order they were emitted
RevisionsOf(entries) ==
    LET body == read(Zip(entries), DOCUMENT_XML).body
    IN Concat([i \in 1..Len(body) |->
                  IF body[i].tag = "p"
                  THEN SelectSeq(body[i].children, LAMBDA e : e.tag \in {"ins", "del"})
                  ELSE <<>>])

\* C28: within one generated document the ids of the insertion and deletion
\* elements of all paragraphs are pairwise distinct, start at 1 and increase
\* by 1 in emission order, insertions and deletions sharing the counter.
C28_RevisionIds ==
    \A a \in WrittenArchives :
        \A n \in 1..Len(RevisionsOf(a)) : RevisionsOf(a)[n].id = Str(n)

\* where the markers of that tag and id stand among the children
MarkerPositions(children, tag, id) ==
    {k \in 1..Len(children) : children[k].tag = tag /\ children[k].id = id}

\* the one position of such a marker
MarkerPosition(children, tag, id) ==
    CHOOSE k \in MarkerPositions(children, tag, id) : TRUE

MarkerTags == {"commentRangeStart", "commentRangeEnd", "commentReference"}

\* C29: for every comment and every reply of a paragraph there is exactly
\* one range start, one range end and one reference with its id, in that
\* order; the markers of a reply stand right after those of the record
\* before it in its thread, so that at each boundary the ids come comment
\* first, then the replies in declaration order.
C29_RangeMarkers ==
    paraOut.done
    => LET children == paraOut.para.children
           shape == ThreadShape(paraSpec.comments)
       IN \A n \in 1..Len(shape) :
             /\ \A tag \in MarkerTags :
                    Cardinality(MarkerPositions(children, tag, Str(n - 1))) = 1
             /\ MarkerPosition(children, "commentRangeStart", Str(n - 1))
                   < MarkerPosition(children, "commentRangeEnd", Str(n - 1))
             /\ MarkerPosition(children, "commentRangeEnd", Str(n - 1))
                   < MarkerPosition(children, "commentReference", Str(n - 1))
             /\ shape[n] > 0
                => \A tag \in MarkerTags :
                       MarkerPosition(children, tag, Str(n - 1))
                         = MarkerPosition(children, tag, Str(n - 2)) + 1

\* a comment with a reply went through the walk that merges comments and
\* tracked changes
C29_Witness ==
    /\ paraOut.done
    /\ paraSpec.tracked_changes # <<>>
    /\ \E i \in 1..Len(paraSpec.comments) : paraSpec.comments[i].replies # <<>>
    /\ MarkerPositions(paraOut.para.children, "commentReference", Str(1)) # {}

\* the part of that name in the archive written
WrittenPart(stem) == read(Zip(gens[1].out[1]), WordPart(XmlName(stem)))

HasPart(stem) == WordPart(XmlName(stem)) \in Available(Zip(gens[1].out[1]))

\* the <w:num> instances declared in the numbering part
DeclaredNums ==
    IF HasPart("numbering")
    THEN SelectSeq(WrittenPart("numbering").children, LAMBDA e : e.tag = "num")
    ELSE <<>>

DeclaredNumIds == {DeclaredNums[i].numId : i \in 1..Len(DeclaredNums)}

\* the numIds in the numPr of the paragraphs of the document
ParagraphNumIds ==
    UNION {UNION {{pPr.children[k].numId :
                      k \in {k \in 1..Len(pPr.children) : pPr.children[k].tag = "numPr"}} :
                     pPr \in {WrittenBody[j].children[n] :
                                 n \in {n \in 1..Len(WrittenBody[j].children) :
                                           WrittenBody[j].children[n].tag = "pPr"}}} :
              j \in {j \in 1..Len(WrittenBody) : WrittenBody[j].tag = "p"}}

\* the numIds in the numPr of the heading styles
HeadingStyleNumIds ==
    IF HasPart("styles")
    THEN {WrittenPart("styles").styles[i].numId :
             i \in {i \in 1..Len(WrittenPart("styles").styles) :
                       "numId" \in DOMAIN WrittenPart("styles").styles[i]}}
    ELSE {}

\* the ids of the instances linked to the abstract definition of the headings
HeadingInstanceIds ==
    {DeclaredNums[i].numId :
        i \in {i \in 1..Len(DeclaredNums) :
                  \E k \in 1..Len(WrittenPart("numbering").children) :
                      LET a == WrittenPart("numbering").children[k]
                      IN /\ a.tag = "abstractNum"
                         /\ a.headings
                         /\ a.abstractNumId = DeclaredNums[i].abstractNumId}}

UsesLists == \E i \in 1..Len(docSpec.paragraphs) : docSpec.paragraphs[i].numbering # None

\* C30: in every generated document each numbering id referenced by the
\* numbering properties of a paragraph or of a heading style is the id of
\* an instance declared in the numbering part; the heading styles reference
\* id 1 when no paragraph is a list item and id 2 when one is, the id of
\* the instance linked to the abstract definition of the headings.
C30_NumberingResolves ==
    DocGenerated
    => /\ ParagraphNumIds \subseteq DeclaredNumIds
       /\ HeadingStyleNumIds \subseteq DeclaredNumIds
       /\ HeadingStyleNumIds \subseteq {IF UsesLists THEN <<"2">> ELSE <<"1">>}
       /\ HeadingStyleNumIds \subseteq HeadingInstanceIds

====
